---- MODULE Spec2Model ----
(***************************************************************************)
(* Model of the quantify interval Counter (counter.go of the latest        *)
(* revision: Count, getKey, takePoints(current)) and of the Quantifier     *)
(* client that owns counters and reports them (client.go of the latest     *)
(* revision: New, run, runTicker, CreateCounter, report, Stop, terminate). *)
(*                                                                         *)
(*   Spec           whole calls of Count / takePoints under a moving clock *)
(*   SpecConc       the same calls broken into their steps, run by threads *)
(*   SpecKey        getKey applied to enumerated intervals and readings    *)
(*   SpecClient     the client: run-loop, ticks, cancellation, Stop()      *)
(*                  callers and CreateCounter, step by step                *)
(*   SpecClientFair SpecClient with every thread scheduled fairly          *)
(***************************************************************************)
EXTENDS Integers, Sequences, FiniteSets, TLC

VARIABLES
    interval,   \* Counter.interval (seconds)
    now,        \* Counter.clock reading, a time.Time [sec, nsec]
    counts,     \* Counter.counts (sync.Map): bucket key -> *int64 (cell id)
    cells,      \* the int64 cells the map's pointers refer to
    mu,         \* Counter.mu: the thread holding it, or "free"
    pc,         \* position of every thread
    loc,        \* local variables of every thread
    log,        \* history: one entry per completed Count() call: the clock
                \* reading it took, its key, its cell, its thread
    takes,      \* history: one entry per returned takePoints call
    trace,      \* traversal orders used by the last whole takePoints call
    keyOut,     \* result of the last getKey call of SpecKey
    running,    \* Quantifier.running
    stopCh,     \* Quantifier.stop: "nil", "open", "closed" ("panic" once
                \* closed twice or sent on after close)
    qmu,        \* Quantifier.mu: the thread holding it, or "free"
    cancelled,  \* Quantifier.ctx is done
    ticker,     \* the ticker channel t.C: "none", "empty", "full"
    counters,   \* Quantifier.counters: sequence of metricCounter
    ctrs,       \* the Counter objects the bindings point to, by pointer
    rpc,        \* position of the goroutine New() starts (run)
    spc,        \* position of every Stop() caller
    creates,    \* number of CreateCounter calls so far
    sloc,       \* what every Stop() caller saw: the state at its call and
                \* whether terminate found the client running
    ops,        \* number of calls and events begun so far
    flushes,    \* history: one entry per report() invoked
    stops,      \* history: one entry per returned Stop() call
    lastCreate, \* the last CreateCounter call: arguments, results, the
                \* call of newCounter it made
    cnt,        \* the Count() call in progress on a counter of the client
    rpc2,       \* position of a second invocation of run()
    pointOut,   \* the last countToMetricPointProto call: argument, result
    resourceName,   \* Quantifier.resourceName
    resourceLabels, \* Quantifier.resourceLabels
    lastOption, \* the last application of an OptionWithResourceType option
    reg         \* the CreateCounter call of every registering thread

\* the variables of one Counter and of its callers
cvars == <<interval, counts, cells, mu, pc, loc, log, takes, trace, keyOut>>

\* the variables of the client
\* the variables that only some specifications of the client move
xvars == <<cnt, rpc2, pointOut, resourceName, resourceLabels, lastOption, reg>>

qvars == <<running, stopCh, qmu, cancelled, ticker, counters, ctrs, rpc, spc,
           sloc, creates, ops, flushes, stops, lastCreate, xvars>>

vars == <<now, cvars, qvars>>

----------------------------------------------------------------------------
(* Bounds *)

MaxTicks == 3        \* the clock is advanced at most this many half intervals
MaxCalls == 3        \* Count() calls begun in one behaviour
MaxTakes == 2        \* takePoints calls begun in one behaviour
MaxConcOps == 4      \* SpecConc: calls begun plus clock moves in one behaviour
MaxInterval == 12    \* SpecKey: intervals 1..MaxInterval
MaxKeySec == 30      \* SpecKey: clock readings 0..MaxKeySec seconds
StartSec == 11       \* the clock's first reading, seconds since the epoch
MaxClientOps == 4    \* SpecClient: calls and events begun in one behaviour
MaxCreates == 2      \* SpecClient: CreateCounter calls in one behaviour
MaxRegisterCalls == 3 \* SpecRegister: CreateCounter calls in one behaviour
MaxFlushOps == 5      \* SpecFlush: calls and events begun in one behaviour
MaxOptionCalls == 3   \* SpecOption: options applied in one behaviour
MaxRunOps == 4        \* SpecRun: calls and events begun in one behaviour
MaxRaceOps == 5       \* SpecRace: calls begun and clock jumps in one behaviour
MaxNoArgOps == 7      \* SpecNoArg: calls and clock jumps in one behaviour
MaxReads == 2         \* SpecMono: getKey() calls in one behaviour
MaxRegOps == 4        \* SpecRegRace: calls begun and clock jumps in one behaviour
MaxBatchOps == 7      \* SpecBatch: calls, ticks and clock jumps in one behaviour
MaxDrainOps == 4      \* SpecDrain: calls begun and clock jumps in one behaviour

Intervals == {2, 7}
CountThreads == {"c1", "c2"}
DrainThreads == {"d1"}
AllDrainThreads == {"d1", "d2"}
Threads == CountThreads \cup AllDrainThreads

----------------------------------------------------------------------------
(* time.Time, as far as the counter uses it *)

UnixToInternalDays == 719162
SecondsPerDay == 86400
NanosPerSecond == 1000000000
NanosPerMilli == 1000000

\* time.Unix(sec, nsec)
TimeUnix(sec, nsec) == [sec |-> sec, nsec |-> nsec]

\* Time.Unix(): seconds since the Unix epoch
Unix(t) == t.sec

\* Time.Before
Before(a, b) == a.sec < b.sec \/ (a.sec = b.sec /\ a.nsec < b.nsec)

\* Time.Add of a duration given in milliseconds
AddMs(t, ms) ==
    LET n == t.nsec + (ms % 1000) * NanosPerMilli
    IN  [sec |-> t.sec + (ms \div 1000) + (n \div NanosPerSecond),
         nsec |-> n % NanosPerSecond]

\* (seconds from the zero time, January 1 year 1, to the Unix epoch) mod d
ZeroOffsetMod(d) == ((UnixToInternalDays % d) * (SecondsPerDay % d)) % d

\* Time.Truncate(d) for d a whole number of seconds: rounds t down to a
\* multiple of d counted from the zero time, not from the Unix epoch.
Truncate(t, d) ==
    IF d <= 0 THEN t
    ELSE [sec |-> t.sec - (((t.sec % d) + ZeroOffsetMod(d)) % d), nsec |-> 0]

----------------------------------------------------------------------------
(* maps *)

EmptyMap == [x \in {} |-> 0]
MapPut(m, k, v) == [x \in (DOMAIN m) \cup {k} |-> IF x = k THEN v ELSE m[x]]
MapDelete(m, k) == [x \in (DOMAIN m) \ {k} |-> m[x]]

\* all orders in which a set can be traversed
Perms(S) ==
    {s \in [1..Cardinality(S) -> S] :
        \A i, j \in 1..Cardinality(S) : i # j => s[i] # s[j]}

RECURSIVE SeqSum(_)
SeqSum(s) == IF s = <<>> THEN 0 ELSE Head(s) + SeqSum(Tail(s))

----------------------------------------------------------------------------
(* Counter *)

\* a window returned by takePoints: the count struct
Window(k, v, I) ==
    [start |-> TimeUnix(k, 0), end |-> TimeUnix(k + I, 0), count |-> v]

\* getKey without the Truncate
getKey_Unix(clk, I) == Unix(clk)

\* Counter.getKey: clock.Now().Truncate(time.Second * interval).Unix()
getKey(clk, I) == Unix(Truncate(clk, I))

\* LoadOrStore written as a plain Store: the pointer is always replaced
LoadOrStore_Store(m, k, p) ==
    [map |-> MapPut(m, k, p), actual |-> p, loaded |-> FALSE]

\* sync.Map.LoadOrStore(k, p): the existing pointer if k is present,
\* otherwise p is stored and returned
LoadOrStore(m, k, p) ==
    IF k \in DOMAIN m
    THEN [map |-> m, actual |-> m[k], loaded |-> TRUE]
    ELSE [map |-> MapPut(m, k, p), actual |-> p, loaded |-> FALSE]

\* atomic.StoreInt64 in place of atomic.AddInt64
AddInt64_Store(h, p, delta) == [h EXCEPT ![p] = delta]

\* atomic.AddInt64(p, delta) on the heap h
AddInt64(h, p, delta) == [h EXCEPT ![p] = @ + delta]

\* the callback with > for >=: the current bucket counts as completed
RangeFn_Gt(m, h, cc, k, current, currentFrame) ==
    IF ~current /\ k > currentFrame
    THEN [counts |-> m, completedCounts |-> cc, cont |-> TRUE]
    ELSE [counts |-> MapDelete(m, k),
          completedCounts |-> MapPut(cc, k, h[m[k]]), cont |-> TRUE]

\* the callback ignoring its current parameter
RangeFn_NoFlag(m, h, cc, k, current, currentFrame) ==
    IF k >= currentFrame
    THEN [counts |-> m, completedCounts |-> cc, cont |-> TRUE]
    ELSE [counts |-> MapDelete(m, k),
          completedCounts |-> MapPut(cc, k, h[m[k]]), cont |-> TRUE]

\* the callback returning false where it should continue (as the
\* argument-less takePoints did)
RangeFn_Stop(m, h, cc, k, current, currentFrame) ==
    IF ~current /\ k >= currentFrame
    THEN [counts |-> m, completedCounts |-> cc, cont |-> FALSE]
    ELSE [counts |-> MapDelete(m, k),
          completedCounts |-> MapPut(cc, k, h[m[k]]), cont |-> TRUE]

\* the callback without its counts.Delete
RangeFn_NoDelete(m, h, cc, k, current, currentFrame) ==
    IF ~current /\ k >= currentFrame
    THEN [counts |-> m, completedCounts |-> cc, cont |-> TRUE]
    ELSE [counts |-> m,
          completedCounts |-> MapPut(cc, k, h[m[k]]), cont |-> TRUE]

\* the callback with the skip placed after the copy: the current bucket
\* is reported and kept
RangeFn_Peek(m, h, cc, k, current, currentFrame) ==
    IF ~current /\ k >= currentFrame
    THEN [counts |-> m,
          completedCounts |-> MapPut(cc, k, h[m[k]]), cont |-> TRUE]
    ELSE [counts |-> MapDelete(m, k),
          completedCounts |-> MapPut(cc, k, h[m[k]]), cont |-> TRUE]

\* the callback takePoints hands to counts.Range, applied to key k:
\* m the map, h the heap, cc completedCounts. cont is what it returns
\* (true: go on with the next key).
RangeFn(m, h, cc, k, current, currentFrame) ==
    LET keyInt == k
        valueInt == h[m[k]]
    IN  IF ~current /\ keyInt >= currentFrame
        THEN [counts |-> m, completedCounts |-> cc, cont |-> TRUE]
        ELSE [counts |-> MapDelete(m, keyInt),
              completedCounts |-> MapPut(cc, keyInt, valueInt),
              cont |-> TRUE]

\* sync.Map.Range visiting the keys in the given order, from position i,
\* until the callback returns false
RECURSIVE RangeFrom(_, _, _, _, _, _, _)
RangeFrom(m, h, cc, order, i, current, currentFrame) ==
    IF i > Len(order)
    THEN [counts |-> m, completedCounts |-> cc]
    ELSE LET r == RangeFn(m, h, cc, order[i], current, currentFrame)
         IN  IF r.cont
             THEN RangeFrom(r.counts, h, r.completedCounts, order, i + 1,
                            current, currentFrame)
             ELSE [counts |-> r.counts, completedCounts |-> r.completedCounts]

\* the loop over completedCounts (a Go map, ranged in the order given)
\* that appends one count per entry
BuildResponse(cc, order, I) ==
    [i \in 1..Len(order) |-> Window(order[i], cc[order[i]], I)]

RECURSIVE Insert(_, _)
Insert(w, s) ==
    IF s = <<>> THEN <<w>>
    ELSE IF Before(w.start, Head(s).start) THEN <<w>> \o s
    ELSE <<Head(s)>> \o Insert(w, Tail(s))

\* takePoints without its sort.Slice
SortSlice_None(s) == s

\* sort.Slice(response, start.Before)
RECURSIVE SortSlice(_)
SortSlice(s) == IF s = <<>> THEN <<>> ELSE Insert(Head(s), SortSlice(Tail(s)))

\* the values a map's pointers refer to
Values(m, h) == [k \in DOMAIN m |-> h[m[k]]]

----------------------------------------------------------------------------
(* Validation of metric names and label keys; construction of a Counter *)

\* strings are sequences of characters; the character classes of the two
\* patterns, over the characters the inputs are drawn from
Lower == {"a", "c"}
Upper == {"A"}
Digit == {"1"}
AlphaNum == Lower \cup Upper \cup Digit

maxLengthMetricType == 200
maxLengthMetricLabelKey == 100

\* reMetricType  ^[a-zA-Z0-9]((\/[a-zA-Z0-9])?[a-zA-Z0-9\._]*)*$ : an
\* alphanumeric first, then alphanumerics, dots, underscores and slashes,
\* every slash followed at once by an alphanumeric
reMetricTypeMatch(s) ==
    /\ Len(s) >= 1
    /\ s[1] \in AlphaNum
    /\ \A i \in 2..Len(s) :
          \/ s[i] \in AlphaNum \cup {".", "_"}
          \/ s[i] = "/" /\ i < Len(s) /\ s[i + 1] \in AlphaNum

\* reMetricLabelKey  ^[a-z][a-z0-9\_]*$
reMetricLabelKeyMatch(s) ==
    /\ Len(s) >= 1
    /\ s[1] \in Lower
    /\ \A i \in 2..Len(s) : s[i] \in Lower \cup Digit \cup {"_"}

isMetricTypeValid(metricType) ==
    IF ~reMetricTypeMatch(metricType) THEN FALSE
    ELSE IF Len(metricType) > maxLengthMetricType THEN FALSE
    ELSE TRUE

isMetricLabelKeyValid(metricLabelKey) ==
    IF ~reMetricLabelKeyMatch(metricLabelKey) THEN FALSE
    ELSE IF Len(metricLabelKey) > maxLengthMetricLabelKey THEN FALSE
    ELSE TRUE

NoError == "nil"
NoCounter == [interval |-> 0, counts |-> EmptyMap, cells |-> <<>>, nil |-> TRUE]
ErrInterval == "interval must be greater than 0"
ErrName == "invalid name parameter provided"
ErrLabelKey(key) == <<"invalid label key provided: ", key>>

\* newCounter with the test inverted to interval < 0
newCounter_Zero(i) ==
    IF i < 0
    THEN [counter |-> NoCounter, err |-> ErrInterval]
    ELSE [counter |-> [interval |-> i, counts |-> EmptyMap, cells |-> <<>>,
                       nil |-> FALSE],
          err |-> NoError]

\* newCounter(interval): the Counter (nil on error) and the error
newCounter(i) ==
    IF i <= 0
    THEN [counter |-> NoCounter, err |-> ErrInterval]
    ELSE [counter |-> [interval |-> i, counts |-> EmptyMap, cells |-> <<>>,
                       nil |-> FALSE],
          err |-> NoError]

\* path.Join(customMetricRoot, name), for a name that passed validation
customMetricRoot == <<"custom.googleapis.com">>
MetricType(name) == customMetricRoot \o <<"/">> \o name

StopThreads == {"s1", "s2"}

SlocInit == [runningAtCall |-> FALSE, flushesAtCall |-> 0, signalled |-> FALSE]

NoCreate ==
    [called |-> FALSE, name |-> <<>>, labels |-> EmptyMap, interval |-> 0,
     err |-> NoError, ptr |-> 0, before |-> <<>>, after |-> <<>>,
     made |-> FALSE, madeWith |-> 0, madeErr |-> NoError, madeCounter |-> NoCounter]

\* no Count() call in progress
CntInit == [pc |-> "idle", p |-> 0, ptr |-> 0, late |-> FALSE]

NoPoint ==
    [called |-> FALSE,
     in |-> [start |-> TimeUnix(0, 0), end |-> TimeUnix(0, 0), count |-> 0],
     out |-> [startTime |-> [seconds |-> 0, nanos |-> 0],
              endTime |-> [seconds |-> 0, nanos |-> 0], value |-> 0]]

\* a nil map[string]string
NilLabels == [nil |-> TRUE, map |-> EmptyMap]

NoOption ==
    [called |-> FALSE, resource |-> [name |-> "", fields |-> <<>>],
     err |-> NoError, nameBefore |-> "", labelsBefore |-> NilLabels]

\* the threads that call CreateCounter step by step
RegThreads == {"r1", "r2"}

\* no CreateCounter call in progress: mc is the binding built, slice the
\* value of q.counters read for append, returned the counters handed to
\* the caller so far
RegInit == [pc |-> "idle", mc |-> [metric |-> <<>>, counter |-> 0],
            slice |-> <<>>, returned |-> <<>>]

\* the fields of the Quantifier as New() leaves them, the goroutine it
\* starts not yet scheduled
QInit ==
    /\ running = FALSE
    /\ stopCh = "nil"
    /\ qmu = "free"
    /\ cancelled = FALSE
    /\ ticker = "none"
    /\ counters = <<>>
    /\ ctrs = <<>>
    /\ rpc = "start"
    /\ spc = [t \in StopThreads |-> "idle"]
    /\ sloc = [t \in StopThreads |-> SlocInit]
    /\ ops = 0
    /\ creates = 0
    /\ flushes = <<>>
    /\ stops = <<>>
    /\ lastCreate = NoCreate
    /\ cnt = CntInit
    /\ rpc2 = "none"
    /\ resourceName = ""
    /\ resourceLabels = NilLabels
    /\ lastOption = NoOption
    /\ reg = [t \in RegThreads |-> RegInit]

----------------------------------------------------------------------------
(* State after construction, with the clock the tests put in *)

LocInit ==
    [key |-> 0, at |-> TimeUnix(0, 0), ptr |-> 0,
     current |-> FALSE, currentFrame |-> 0, before |-> EmptyMap,
     snapshot |-> {}, visited |-> {}, cur |-> 0,
     completedCounts |-> EmptyMap, ncalls |-> 0, more |-> TRUE,
     waited |-> FALSE]

Init ==
    /\ interval \in Intervals
    /\ now = TimeUnix(StartSec, 0)
    /\ counts = EmptyMap
    /\ cells = <<>>
    /\ mu = "free"
    /\ pc = [t \in Threads |-> "idle"]
    /\ loc = [t \in Threads |-> LocInit]
    /\ log = <<>>
    /\ takes = <<>>
    /\ trace = [order |-> <<>>, order2 |-> <<>>]
    /\ keyOut = [called |-> FALSE, key |-> 0]
    /\ pointOut = NoPoint
    /\ QInit

\* the mock clock is moved forward by d milliseconds
ClockAdvance(d) ==
    /\ AddMs(now, d).sec <= StartSec + (MaxTicks * interval) \div 2
    /\ now' = AddMs(now, d)
    /\ UNCHANGED <<qvars, interval, counts, cells, mu, pc, loc, log, takes, trace, keyOut>>

\* half an interval: every window is read at two instants, and an odd
\* interval gives readings with a sub-second part
AdvanceMs == {500 * interval}


----------------------------------------------------------------------------
(* Whole calls *)

\* Counter.Count()
CountCall ==
    /\ Len(log) < MaxCalls
    /\ LET key == getKey(now, interval)
           r == LoadOrStore(counts, key, Len(cells) + 1)
           heap == IF r.loaded THEN cells ELSE Append(cells, 0)
       IN  /\ counts' = r.map
           /\ cells' = AddInt64(heap, r.actual, 1)
           /\ log' = Append(log, [at |-> now, key |-> key, cell |-> r.actual,
                                  by |-> "main"])
    /\ UNCHANGED <<qvars, interval, now, mu, pc, loc, takes, trace, keyOut>>

\* Counter.takePoints(current)
TakePointsCall(current) ==
    /\ Len(takes) < MaxTakes
    /\ mu = "free"
    /\ \E order \in Perms(DOMAIN counts) :
         LET currentFrame == getKey(now, interval)
             r == RangeFrom(counts, cells, EmptyMap, order, 1, current, currentFrame)
         IN  \E order2 \in Perms(DOMAIN r.completedCounts) :
               LET response == SortSlice(BuildResponse(r.completedCounts, order2, interval))
               IN  /\ counts' = r.counts
                   /\ takes' = Append(takes,
                         [current |-> current, at |-> now, ncalls |-> Len(log),
                          before |-> counts, after |-> r.counts,
                          response |-> response,
                          by |-> "main", waited |-> FALSE])
                   /\ trace' = [order |-> order, order2 |-> order2]
    /\ UNCHANGED <<qvars, interval, now, cells, mu, pc, loc, log, keyOut>>

Next ==
    \/ CountCall
    \/ \E current \in BOOLEAN : TakePointsCall(current)
    \/ \E d \in AdvanceMs : ClockAdvance(d)

Spec == Init /\ [][Next]_vars

----------------------------------------------------------------------------
(* The same calls step by step, one thread per call in progress *)

\* calls begun: finished ones and those some thread is in
CallsBegun == Len(log) + Cardinality({t \in CountThreads : pc[t] # "idle"})
TakesBegun == Len(takes) + Cardinality({t \in AllDrainThreads : pc[t] # "idle"})

\* whole intervals the clock has been moved forward
Jumps == (now.sec - StartSec) \div interval

OpsBegun == CallsBegun + TakesBegun + Jumps

\* the mock clock is moved forward by a whole interval
ClockJump ==
    /\ now' = AddMs(now, 1000 * interval)
    /\ UNCHANGED <<qvars, interval, counts, cells, mu, pc, loc, log, takes, trace, keyOut>>

\* Count(), first step: c.getKey()
CountGetKey(t) ==
    /\ pc[t] = "idle"
    /\ loc' = [loc EXCEPT ![t].key = getKey(now, interval), ![t].at = now]
    /\ pc' = [pc EXCEPT ![t] = "loadOrStore"]
    /\ UNCHANGED <<qvars, interval, now, counts, cells, mu, log, takes, trace, keyOut>>

\* Count() waiting for c.mu to be free before its LoadOrStore
CountLoadOrStore_Locked(t) ==
    /\ pc[t] = "loadOrStore"
    /\ mu = "free"
    /\ LET r == LoadOrStore(counts, loc[t].key, Len(cells) + 1)
       IN  /\ counts' = r.map
           /\ cells' = IF r.loaded THEN cells ELSE Append(cells, 0)
           /\ loc' = [loc EXCEPT ![t].ptr = r.actual]
    /\ pc' = [pc EXCEPT ![t] = "add"]
    /\ UNCHANGED <<qvars, interval, now, mu, log, takes, trace, keyOut>>

\* Count(), second step: c.counts.LoadOrStore(key, &zero)
CountLoadOrStore(t) ==
    /\ pc[t] = "loadOrStore"
    /\ LET r == LoadOrStore(counts, loc[t].key, Len(cells) + 1)
       IN  /\ counts' = r.map
           /\ cells' = IF r.loaded THEN cells ELSE Append(cells, 0)
           /\ loc' = [loc EXCEPT ![t].ptr = r.actual]
    /\ pc' = [pc EXCEPT ![t] = "add"]
    /\ UNCHANGED <<qvars, interval, now, mu, log, takes, trace, keyOut>>

\* Count(), last step: atomic.AddInt64(count, 1)
CountAdd(t) ==
    /\ pc[t] = "add"
    /\ cells' = AddInt64(cells, loc[t].ptr, 1)
    /\ log' = Append(log, [at |-> loc[t].at, key |-> loc[t].key,
                           cell |-> loc[t].ptr, by |-> t])
    /\ loc' = [loc EXCEPT ![t] = LocInit]
    /\ pc' = [pc EXCEPT ![t] = "idle"]
    /\ UNCHANGED <<qvars, interval, now, counts, mu, takes, trace, keyOut>>

\* takePoints(current): c.mu.Lock()
TakeLock(t, current) ==
    /\ pc[t] = "idle"
    /\ mu = "free"
    /\ mu' = t
    /\ loc' = [loc EXCEPT ![t].current = current]
    /\ pc' = [pc EXCEPT ![t] = "getKey"]
    /\ UNCHANGED <<qvars, interval, now, counts, cells, log, takes, trace, keyOut>>

\* takePoints: currentFrame := c.getKey(), completedCounts := make(map),
\* and Range begins on the keys then present
TakeGetKey(t) ==
    /\ pc[t] = "getKey"
    /\ loc' = [loc EXCEPT ![t].currentFrame = getKey(now, interval),
                          ![t].at = now,
                          ![t].ncalls = Len(log),
                          ![t].before = counts,
                          ![t].snapshot = DOMAIN counts,
                          ![t].visited = {},
                          ![t].more = TRUE,
                          ![t].completedCounts = EmptyMap]
    /\ pc' = [pc EXCEPT ![t] = "range"]
    /\ UNCHANGED <<qvars, interval, now, counts, cells, mu, log, takes, trace, keyOut>>

\* takePoints: Range calls the callback on a key not yet visited; the
\* callback reads the value and skips the key or copies it
TakeRangeRead(t) ==
    /\ pc[t] = "range"
    /\ loc[t].more
    /\ \E k \in (DOMAIN counts) \ loc[t].visited :
         LET r == RangeFn(counts, cells, loc[t].completedCounts, k,
                          loc[t].current, loc[t].currentFrame)
         IN  /\ loc' = [loc EXCEPT ![t].completedCounts = r.completedCounts,
                                   ![t].visited = @ \cup {k},
                                   ![t].cur = k,
                                   ![t].more = r.cont]
             /\ pc' = [pc EXCEPT ![t] =
                          IF k \notin DOMAIN r.counts THEN "delete"
                          ELSE "range"]
    /\ UNCHANGED <<qvars, interval, now, counts, cells, mu, log, takes, trace, keyOut>>

\* takePoints: the callback's c.counts.Delete(keyInt)
TakeDelete(t) ==
    /\ pc[t] = "delete"
    /\ counts' = MapDelete(counts, loc[t].cur)
    /\ pc' = [pc EXCEPT ![t] = "range"]
    /\ UNCHANGED <<qvars, interval, now, cells, mu, loc, log, takes, trace, keyOut>>

\* takePoints: Range returns once the callback has returned false or it
\* has visited every key that was present when it began (a key stored
\* meanwhile may be left out); then
\* c.mu.Unlock(), and the response is built, sorted and returned
TakeUnlock(t) ==
    /\ pc[t] = "range"
    /\ ~loc[t].more \/ loc[t].snapshot \subseteq loc[t].visited
    /\ mu' = "free"
    /\ \E order2 \in Perms(DOMAIN loc[t].completedCounts) :
         takes' = Append(takes,
             [current |-> loc[t].current, at |-> loc[t].at,
              ncalls |-> loc[t].ncalls,
              before |-> loc[t].before, after |-> counts,
              response |-> SortSlice(BuildResponse(loc[t].completedCounts,
                                                   order2, interval)),
              by |-> t, waited |-> loc[t].waited])
    /\ loc' = [loc EXCEPT ![t] = LocInit]
    /\ pc' = [pc EXCEPT ![t] = "idle"]
    /\ UNCHANGED <<qvars, interval, now, counts, cells, log, trace, keyOut>>

NextConc ==
    \/ \E t \in CountThreads : OpsBegun < MaxConcOps /\ CountGetKey(t)
    \/ \E t \in CountThreads : CountLoadOrStore(t)
    \/ \E t \in CountThreads : CountAdd(t)
    \/ \E t \in DrainThreads, current \in BOOLEAN :
          OpsBegun < MaxConcOps /\ TakeLock(t, current)
    \/ \E t \in DrainThreads : TakeGetKey(t)
    \/ \E t \in DrainThreads : TakeRangeRead(t)
    \/ \E t \in DrainThreads : TakeDelete(t)
    \/ \E t \in DrainThreads : TakeUnlock(t)
    \/ OpsBegun < MaxConcOps /\ ClockJump

SpecConc == Init /\ [][NextConc]_vars

\* thread t calls takePoints(current) and comes to c.mu.Lock(); waited
\* records that another thread held the mutex at that moment
TakeBegin(t, current) ==
    /\ pc[t] = "idle"
    /\ loc' = [loc EXCEPT ![t].current = current, ![t].waited = (mu # "free")]
    /\ pc' = [pc EXCEPT ![t] = "lock"]
    /\ UNCHANGED <<qvars, interval, now, counts, cells, mu, log, takes, trace, keyOut>>

\* c.mu.Lock() returning whether or not the mutex is held
TakeAcquire_NoLock(t) ==
    /\ pc[t] = "lock"
    /\ mu' = t
    /\ pc' = [pc EXCEPT ![t] = "getKey"]
    /\ UNCHANGED <<qvars, interval, now, counts, cells, loc, log, takes, trace, keyOut>>

\* takePoints: c.mu.Lock() returns once the mutex is free
TakeAcquire(t) ==
    /\ pc[t] = "lock"
    /\ mu = "free"
    /\ mu' = t
    /\ pc' = [pc EXCEPT ![t] = "getKey"]
    /\ UNCHANGED <<qvars, interval, now, counts, cells, loc, log, takes, trace, keyOut>>

\* takePoints calls of two threads in their steps, whole Count() calls
\* between those steps, and clock jumps
NextDrain ==
    \/ OpsBegun < MaxDrainOps /\ CountCall
    \/ \E t \in AllDrainThreads, current \in BOOLEAN :
          OpsBegun < MaxDrainOps /\ TakeBegin(t, current)
    \/ \E t \in AllDrainThreads : TakeAcquire(t)
    \/ \E t \in AllDrainThreads : TakeGetKey(t)
    \/ \E t \in AllDrainThreads : TakeRangeRead(t)
    \/ \E t \in AllDrainThreads : TakeDelete(t)
    \/ \E t \in AllDrainThreads : TakeUnlock(t)
    \/ OpsBegun < MaxDrainOps /\ ClockJump

SpecDrain == Init /\ [][NextDrain]_vars

\* Count() calls of two threads and takePoints(false) calls of one, as
\* the run-loop makes them
NextRace ==
    \/ \E t \in CountThreads : OpsBegun < MaxRaceOps /\ CountGetKey(t)
    \/ \E t \in CountThreads : CountLoadOrStore(t)
    \/ \E t \in CountThreads : CountAdd(t)
    \/ \E t \in DrainThreads : OpsBegun < MaxRaceOps /\ TakeLock(t, FALSE)
    \/ \E t \in DrainThreads : TakeGetKey(t)
    \/ \E t \in DrainThreads : TakeRangeRead(t)
    \/ \E t \in DrainThreads : TakeDelete(t)
    \/ \E t \in DrainThreads : TakeUnlock(t)
    \/ OpsBegun < MaxRaceOps /\ ClockJump

SpecRace == Init /\ [][NextRace]_vars

----------------------------------------------------------------------------
(* getKey on enumerated inputs *)

InitKey ==
    /\ interval \in 1..MaxInterval
    /\ now \in {TimeUnix(sec, nsec) : sec \in 0..MaxKeySec, nsec \in {0, 999999999}}
    /\ counts = EmptyMap
    /\ cells = <<>>
    /\ mu = "free"
    /\ pc = [t \in Threads |-> "idle"]
    /\ loc = [t \in Threads |-> LocInit]
    /\ log = <<>>
    /\ takes = <<>>
    /\ trace = [order |-> <<>>, order2 |-> <<>>]
    /\ keyOut = [called |-> FALSE, key |-> 0]
    /\ pointOut = NoPoint
    /\ QInit

\* a call of c.getKey()
GetKeyCall ==
    /\ ~keyOut.called
    /\ keyOut' = [called |-> TRUE, key |-> getKey(now, interval)]
    /\ UNCHANGED <<qvars, interval, now, counts, cells, mu, pc, loc, log, takes, trace>>

NextKey == GetKeyCall

SpecKey == InitKey /\ [][NextKey]_vars

\* the callback of the takePoints() of counter.go, which has no current
\* parameter: at a key that is not completed it returns false, and Range
\* stops
noArgRangeFn(m, h, cc, k, currentFrame) ==
    LET keyInt == k
        valueInt == h[m[k]]
    IN  IF keyInt >= currentFrame
        THEN [counts |-> m, completedCounts |-> cc, cont |-> FALSE]
        ELSE [counts |-> MapDelete(m, k),
              completedCounts |-> MapPut(cc, keyInt, valueInt),
              cont |-> TRUE]

\* counts.Range of that takePoints(), visiting the keys in the given order
RECURSIVE noArgRangeFrom(_, _, _, _, _, _)
noArgRangeFrom(m, h, cc, order, i, currentFrame) ==
    IF i > Len(order)
    THEN [counts |-> m, completedCounts |-> cc]
    ELSE LET r == noArgRangeFn(m, h, cc, order[i], currentFrame)
         IN  IF r.cont
             THEN noArgRangeFrom(r.counts, h, r.completedCounts, order, i + 1,
                                 currentFrame)
             ELSE [counts |-> r.counts, completedCounts |-> r.completedCounts]

\* Counter.takePoints() of counter.go: the response is built by ranging
\* over completedCounts and is not sorted
NoArgTakePointsCall ==
    /\ Len(takes) < MaxTakes
    /\ mu = "free"
    /\ \E order \in Perms(DOMAIN counts) :
         LET currentFrame == getKey(now, interval)
             r == noArgRangeFrom(counts, cells, EmptyMap, order, 1, currentFrame)
         IN  \E order2 \in Perms(DOMAIN r.completedCounts) :
               /\ counts' = r.counts
               /\ takes' = Append(takes,
                     [current |-> FALSE, at |-> now, ncalls |-> Len(log),
                      before |-> counts, after |-> r.counts,
                      response |-> BuildResponse(r.completedCounts, order2, interval),
                      by |-> "main", waited |-> FALSE])
               /\ trace' = [order |-> order, order2 |-> order2]
    /\ UNCHANGED <<qvars, interval, now, cells, mu, pc, loc, log, keyOut>>

\* the steps of TestTakePoints: Count() calls, the mock clock moved by an
\* interval, takePoints() calls
NextNoArg ==
    \/ OpsBegun < MaxNoArgOps /\ CountCall
    \/ OpsBegun < MaxNoArgOps /\ ClockJump
    \/ OpsBegun < MaxNoArgOps /\ NoArgTakePointsCall

SpecNoArg == Init /\ [][NextNoArg]_vars

\* getKey() is called and the reading and the key are noted
GetKeyRead ==
    /\ Len(log) < MaxReads
    /\ log' = Append(log, [at |-> now, key |-> getKey(now, interval),
                           cell |-> 0, by |-> "main"])
    /\ UNCHANGED <<qvars, interval, now, counts, cells, mu, pc, loc, takes, trace,
                   keyOut>>

\* what the clock moves forward by between two readings, in milliseconds:
\* less than a second, a second, one interval less a millisecond, one
\* interval, or three
ForwardMs == {1, 1000, 1000 * interval - 1, 1000 * interval, 3000 * interval}

\* the clock moves forward, once, after the first reading
ClockForward(d) ==
    /\ Len(log) = 1
    /\ now = log[1].at
    /\ now' = AddMs(now, d)
    /\ UNCHANGED <<qvars, interval, counts, cells, mu, pc, loc, log, takes, trace,
                   keyOut>>

NextMono ==
    \/ GetKeyRead
    \/ \E d \in ForwardMs : ClockForward(d)

SpecMono == InitKey /\ [][NextMono]_vars

----------------------------------------------------------------------------
(* The client: registration, counting, report *)

\* inputs of CreateCounter
NameInputs == {<<"a">>, <<"a", "/">>}
LabelKeyInputs == {<<"c">>, <<"@">>}
LabelInputs == {[k \in K |-> "red"] : K \in {{}, {<<"c">>}, LabelKeyInputs}}
IntervalInputs == {-1, 0, 2}

\* the inputs of the registrations made while the client runs
ValidName == <<"a">>
ValidLabelInputs == {labels \in LabelInputs :
                        \A key \in DOMAIN labels : isMetricLabelKeyValid(key)}

\* seconds the clock moves in one step of SpecClient
ClientStepSec == 2

Max(a, b) == IF a >= b THEN a ELSE b

\* the keys of S in the order they have in pick
Filter(pick, S) == SelectSeq(pick, LAMBDA k : k \in S)

\* every bucket key of every Counter
AllKeys == UNION {DOMAIN ctrs[p].counts : p \in 1..Len(ctrs)}

\* Counter.takePoints(current) on the Counter object c at clock reading
\* clk; Range visits the keys in the order of pick, the response loop in
\* the order of pick2
takePoints(c, clk, current, pick, pick2) ==
    LET currentFrame == getKey(clk, c.interval)
        r == RangeFrom(c.counts, c.cells, EmptyMap, Filter(pick, DOMAIN c.counts),
                       1, current, currentFrame)
        response == SortSlice(BuildResponse(r.completedCounts,
                        Filter(pick2, DOMAIN r.completedCounts), c.interval))
    IN  [counter |-> [c EXCEPT !.counts = r.counts], response |-> response]

\* timestamppb.New(t): Seconds is t.Unix(), Nanos is t.Nanosecond()
timestamppbNew(t) == [seconds |-> Unix(t), nanos |-> t.nsec]

\* countToMetricPointProto with the end time left as it is
countToMetricPointProto_SameEnd(count) ==
    [startTime |-> timestamppbNew(count.start),
     endTime |-> timestamppbNew(count.end),
     value |-> count.count]

\* countToMetricPointProto(count): the Point for a window, its end time
\* count.end.Add(time.Millisecond * -1)
countToMetricPointProto(count) ==
    [startTime |-> timestamppbNew(count.start),
     endTime |-> timestamppbNew(AddMs(count.end, -1)),
     value |-> count.count]

createTimeSeriesProto(metric, point) ==
    [metric |-> metric, kind |-> "CUMULATIVE", points |-> <<point>>]

\* the inner loop of report with pointCount never incremented: every
\* point of the binding goes to series[0]
AddPoints_NoIncrement(series, metric, response) ==
    [j \in 1..Max(Len(series), IF response = <<>> THEN 0 ELSE 1) |->
        (IF j <= Len(series) THEN series[j] ELSE <<>>) \o
        (IF j = 1
         THEN [x \in 1..Len(response) |->
                 createTimeSeriesProto(metric, countToMetricPointProto(response[x]))]
         ELSE <<>>)]

\* the inner loop of report: point number j of one binding goes to
\* series[j], which is appended to series when it does not exist yet
AddPoints(series, metric, response) ==
    [j \in 1..Max(Len(series), Len(response)) |->
        (IF j <= Len(series) THEN series[j] ELSE <<>>) \o
        (IF j <= Len(response)
         THEN <<createTimeSeriesProto(metric, countToMetricPointProto(response[j]))>>
         ELSE <<>>)]

\* the outer loop of report over q.counters, from binding i on
RECURSIVE ReportFrom(_, _, _, _, _, _, _, _)
ReportFrom(cs, series, bindings, i, clk, current, pick, pick2) ==
    IF i > Len(bindings)
    THEN [ctrs |-> cs, series |-> series]
    ELSE LET mc == bindings[i]
             t == takePoints(cs[mc.counter], clk, current, pick, pick2)
         IN  ReportFrom([cs EXCEPT ![mc.counter] = t.counter],
                        AddPoints(series, mc.metric, t.response),
                        bindings, i + 1, clk, current, pick, pick2)

\* the error CreateTimeSeries returns for batch i when the backend
\* rejects it
ErrBackend(i) == <<"rpc error", i>>

\* the send loop of report returning at the first error, after the
\* handler
RECURSIVE SendFrom_Abort(_, _, _, _)
SendFrom_Abort(series, failed, i, out) ==
    IF i > Len(series)
    THEN out
    ELSE LET err == IF i \in failed THEN ErrBackend(i) ELSE NoError
             sent == Append(out.sent, series[i])
         IN  IF err # NoError
             THEN [sent |-> sent,
                   handled |-> Append(out.handled, [q |-> "q", err |-> err])]
             ELSE SendFrom_Abort(series, failed, i + 1,
                                 [sent |-> sent, handled |-> out.handled])

\* the send loop of report making one request with no time series when
\* there is no batch
RECURSIVE SendFrom_EmptyRequest(_, _, _, _)
SendFrom_EmptyRequest(series, failed, i, out) ==
    IF i > Len(series)
    THEN IF series = <<>> THEN [sent |-> <<<<>>>>, handled |-> out.handled]
                          ELSE out
    ELSE LET err == IF i \in failed THEN ErrBackend(i) ELSE NoError
             sent == Append(out.sent, series[i])
             handled == IF err # NoError
                        THEN Append(out.handled, [q |-> "q", err |-> err])
                        ELSE out.handled
         IN  SendFrom_EmptyRequest(series, failed, i + 1,
                                   [sent |-> sent, handled |-> handled])

\* the send loop of report from batch i on: each batch is handed to
\* CreateTimeSeries, and q.errorHandler(q, err) is called when that
\* returns an error. failed is the set of batches the backend rejects;
\* sent lists the requests made, handled the calls of the handler
RECURSIVE SendFrom(_, _, _, _)
SendFrom(series, failed, i, out) ==
    IF i > Len(series)
    THEN out
    ELSE LET err == IF i \in failed THEN ErrBackend(i) ELSE NoError
             sent == Append(out.sent, series[i])
             handled == IF err # NoError
                        THEN Append(out.handled, [q |-> "q", err |-> err])
                        ELSE out.handled
         IN  SendFrom(series, failed, i + 1, [sent |-> sent, handled |-> handled])

\* report that leaves the counters as they were when a submission fails
Report_PutBack(by, current) ==
    \E pick \in Perms(AllKeys), pick2 \in Perms(AllKeys) :
        LET r == ReportFrom(ctrs, <<>>, counters, 1, now, current, pick, pick2)
        IN  \E failed \in SUBSET (1..Len(r.series)) :
              LET out == SendFrom(r.series, failed, 1,
                                  [sent |-> <<>>, handled |-> <<>>])
              IN  /\ ctrs' = IF failed = {} THEN r.ctrs ELSE ctrs
                  /\ flushes' = Append(flushes,
                        [current |-> current, by |-> by, series |-> r.series,
                         failed |-> failed, sent |-> out.sent,
                         handled |-> out.handled, cancelled |-> cancelled,
                         stopsReturned |-> Len(stops), running |-> running])

\* Quantifier.report(current), called by thread by: drains every counter
\* into series, then submits every batch; the backend fails the batches
\* in failed
Report(by, current) ==
    \E pick \in Perms(AllKeys), pick2 \in Perms(AllKeys) :
        LET r == ReportFrom(ctrs, <<>>, counters, 1, now, current, pick, pick2)
        IN  \E failed \in SUBSET (1..Len(r.series)) :
              LET out == SendFrom(r.series, failed, 1,
                                  [sent |-> <<>>, handled |-> <<>>])
              IN  /\ ctrs' = r.ctrs
                  /\ flushes' = Append(flushes,
                        [current |-> current, by |-> by, series |-> r.series,
                         failed |-> failed, sent |-> out.sent,
                         handled |-> out.handled, cancelled |-> cancelled,
                         stopsReturned |-> Len(stops), running |-> running])

\* q.counters = append(q.counters, mc), with the binding put in front
appendBinding_Front(bindings, mc) == <<mc>> \o bindings

\* q.counters = append(q.counters, mc)
appendBinding(bindings, mc) == Append(bindings, mc)

\* CreateCounter registering the binding before it looks at the error of
\* newCounter
CreateCounter_AppendFirst(name, labels, i) ==
    /\ ops' = ops + 1
    /\ creates' = creates + 1
    /\ LET call == [NoCreate EXCEPT !.called = TRUE, !.name = name,
                       !.labels = labels, !.interval = i, !.before = counters]
           bad == {key \in DOMAIN labels : ~isMetricLabelKeyValid(key)}
       IN  IF ~isMetricTypeValid(name)
           THEN /\ lastCreate' = [call EXCEPT !.err = ErrName, !.after = counters]
                /\ UNCHANGED <<counters, ctrs>>
           ELSE IF bad # {}
           THEN /\ \E key \in bad :
                      lastCreate' = [call EXCEPT !.err = ErrLabelKey(key),
                                                 !.after = counters]
                /\ UNCHANGED <<counters, ctrs>>
           ELSE LET n == newCounter(i)
                    made == [call EXCEPT !.made = TRUE, !.madeWith = i,
                                !.madeErr = n.err, !.madeCounter = n.counter]
                IN  IF n.err # NoError
                    THEN LET mc == [metric |-> [type |-> MetricType(name),
                                                labels |-> labels],
                                    counter |-> 0]
                         IN  /\ counters' = appendBinding(counters, mc)
                             /\ lastCreate' = [made EXCEPT !.err = n.err,
                                                  !.after = appendBinding(counters, mc)]
                             /\ UNCHANGED ctrs
                    ELSE LET ptr == Len(ctrs) + 1
                             mc == [metric |-> [type |-> MetricType(name),
                                                labels |-> labels],
                                    counter |-> ptr]
                         IN  /\ ctrs' = Append(ctrs, n.counter)
                             /\ counters' = appendBinding(counters, mc)
                             /\ lastCreate' = [made EXCEPT !.ptr = mc.counter,
                                                  !.after = appendBinding(counters, mc)]
    /\ UNCHANGED <<now, cvars, xvars, running, stopCh, qmu, cancelled, ticker, rpc,
                   spc, sloc, flushes, stops>>

\* CreateCounter calling newCounter before it validates name and labels
CreateCounter_IntervalFirst(name, labels, i) ==
    /\ ops' = ops + 1
    /\ creates' = creates + 1
    /\ LET call == [NoCreate EXCEPT !.called = TRUE, !.name = name,
                       !.labels = labels, !.interval = i, !.before = counters]
           bad == {key \in DOMAIN labels : ~isMetricLabelKeyValid(key)}
       IN  IF newCounter(i).err # NoError
           THEN /\ lastCreate' = [call EXCEPT !.made = TRUE, !.madeWith = i,
                                      !.madeErr = newCounter(i).err,
                                      !.err = newCounter(i).err, !.after = counters]
                /\ UNCHANGED <<counters, ctrs>>
           ELSE IF ~isMetricTypeValid(name)
           THEN /\ lastCreate' = [call EXCEPT !.err = ErrName, !.after = counters]
                /\ UNCHANGED <<counters, ctrs>>
           ELSE IF bad # {}
           THEN /\ \E key \in bad :
                      lastCreate' = [call EXCEPT !.err = ErrLabelKey(key),
                                                 !.after = counters]
                /\ UNCHANGED <<counters, ctrs>>
           ELSE LET n == newCounter(i)
                    made == [call EXCEPT !.made = TRUE, !.madeWith = i,
                                !.madeErr = n.err, !.madeCounter = n.counter]
                IN  IF n.err # NoError
                    THEN /\ lastCreate' = [made EXCEPT !.err = n.err,
                                                       !.after = counters]
                         /\ UNCHANGED <<counters, ctrs>>
                    ELSE LET ptr == Len(ctrs) + 1
                             mc == [metric |-> [type |-> MetricType(name),
                                                labels |-> labels],
                                    counter |-> ptr]
                         IN  /\ ctrs' = Append(ctrs, n.counter)
                             /\ counters' = appendBinding(counters, mc)
                             /\ lastCreate' = [made EXCEPT !.ptr = mc.counter,
                                                  !.after = appendBinding(counters, mc)]
    /\ UNCHANGED <<now, cvars, xvars, running, stopCh, qmu, cancelled, ticker, rpc,
                   spc, sloc, flushes, stops>>

\* Quantifier.CreateCounter(name, labels, interval)
CreateCounter(name, labels, i) ==
    /\ ops' = ops + 1
    /\ creates' = creates + 1
    /\ LET call == [NoCreate EXCEPT !.called = TRUE, !.name = name,
                       !.labels = labels, !.interval = i, !.before = counters]
           bad == {key \in DOMAIN labels : ~isMetricLabelKeyValid(key)}
       IN  IF ~isMetricTypeValid(name)
           THEN /\ lastCreate' = [call EXCEPT !.err = ErrName, !.after = counters]
                /\ UNCHANGED <<counters, ctrs>>
           ELSE IF bad # {}
           THEN /\ \E key \in bad :
                      lastCreate' = [call EXCEPT !.err = ErrLabelKey(key),
                                                 !.after = counters]
                /\ UNCHANGED <<counters, ctrs>>
           ELSE LET n == newCounter(i)
                    made == [call EXCEPT !.made = TRUE, !.madeWith = i,
                                !.madeErr = n.err, !.madeCounter = n.counter]
                IN  IF n.err # NoError
                    THEN /\ lastCreate' = [made EXCEPT !.err = n.err,
                                                       !.after = counters]
                         /\ UNCHANGED <<counters, ctrs>>
                    ELSE LET ptr == Len(ctrs) + 1
                             mc == [metric |-> [type |-> MetricType(name),
                                                labels |-> labels],
                                    counter |-> ptr]
                         IN  /\ ctrs' = Append(ctrs, n.counter)
                             /\ counters' = appendBinding(counters, mc)
                             /\ lastCreate' = [made EXCEPT !.ptr = mc.counter,
                                                  !.after = appendBinding(counters, mc)]
    /\ UNCHANGED <<now, cvars, xvars, running, stopCh, qmu, cancelled, ticker, rpc,
                   spc, sloc, flushes, stops>>

\* Counter.Count() on the Counter object p, as one call
CountOn(p) ==
    /\ ops' = ops + 1
    /\ LET c == ctrs[p]
           key == getKey(now, c.interval)
           r == LoadOrStore(c.counts, key, Len(c.cells) + 1)
           heap == IF r.loaded THEN c.cells ELSE Append(c.cells, 0)
       IN  ctrs' = [ctrs EXCEPT ![p] = [c EXCEPT !.counts = r.map,
                                          !.cells = AddInt64(heap, r.actual, 1)]]
    /\ UNCHANGED <<now, cvars, xvars, creates, running, stopCh, qmu, cancelled, ticker, counters,
                   rpc, spc, sloc, flushes, stops, lastCreate>>

\* Counter.Count() on the Counter object p, up to and including
\* c.counts.LoadOrStore: the caller holds the pointer it got. late records
\* that a Stop() call had begun by then
CountBegin(p) ==
    /\ cnt.pc = "idle"
    /\ ops' = ops + 1
    /\ LET c == ctrs[p]
           key == getKey(now, c.interval)
           r == LoadOrStore(c.counts, key, Len(c.cells) + 1)
           heap == IF r.loaded THEN c.cells ELSE Append(c.cells, 0)
       IN  /\ ctrs' = [ctrs EXCEPT ![p] = [c EXCEPT !.counts = r.map, !.cells = heap]]
           /\ cnt' = [pc |-> "add", p |-> p, ptr |-> r.actual,
                      late |-> cnt.late \/ spc["s1"] # "idle" \/ stops # <<>>]
    /\ UNCHANGED <<now, cvars, reg, rpc2, pointOut, resourceName, resourceLabels, lastOption,
                   creates, running, stopCh, qmu, cancelled, ticker, counters,
                   rpc, spc, sloc, flushes, stops, lastCreate>>

\* Counter.Count(): atomic.AddInt64(actual.(*int64), 1), and the call
\* returns
CountFinish ==
    /\ cnt.pc = "add"
    /\ ctrs' = [ctrs EXCEPT ![cnt.p].cells = AddInt64(@, cnt.ptr, 1)]
    /\ cnt' = [CntInit EXCEPT !.late = cnt.late \/ spc["s1"] # "idle" \/ stops # <<>>]
    /\ UNCHANGED <<now, cvars, reg, rpc2, pointOut, resourceName, resourceLabels, lastOption,
                   creates, ops, running, stopCh, qmu, cancelled, ticker, counters,
                   rpc, spc, sloc, flushes, stops, lastCreate>>

\* time passes
ClientClockJump ==
    /\ ops' = ops + 1
    /\ now' = AddMs(now, 1000 * ClientStepSec)
    /\ UNCHANGED <<cvars, xvars, creates, running, stopCh, qmu, cancelled, ticker, counters,
                   ctrs, rpc, spc, sloc, flushes, stops, lastCreate>>

\* the ticker sends on t.C (buffer of one; a tick nobody took is kept,
\* a second one is dropped)
Tick ==
    /\ ticker = "empty"
    /\ ops' = ops + 1
    /\ ticker' = "full"
    /\ UNCHANGED <<now, cvars, xvars, creates, running, stopCh, qmu, cancelled, counters, ctrs,
                   rpc, spc, sloc, flushes, stops, lastCreate>>

\* the context given to New() is cancelled
Cancel ==
    /\ ~cancelled
    /\ ops' = ops + 1
    /\ cancelled' = TRUE
    /\ UNCHANGED <<now, cvars, xvars, creates, running, stopCh, qmu, ticker, counters, ctrs,
                   rpc, spc, sloc, flushes, stops, lastCreate>>

----------------------------------------------------------------------------
(* The client: the goroutine of New() and the callers of Stop() *)

\* run(): under q.mu, return if already running, else mark the client
\* running and make the stop channel; then create the ticker and enter
\* runTicker
RunStart ==
    /\ rpc = "start"
    /\ qmu = "free"
    /\ IF running
       THEN /\ rpc' = "exited"
            /\ UNCHANGED <<running, stopCh, ticker>>
       ELSE /\ running' = TRUE
            /\ stopCh' = "open"
            /\ ticker' = "empty"
            /\ rpc' = "select"
    /\ UNCHANGED <<now, cvars, xvars, qmu, cancelled, counters, ctrs, spc, sloc, creates, ops,
                   flushes, stops, lastCreate>>

\* runTicker whose fn is report(true)
RunTick_Current ==
    /\ rpc = "select"
    /\ ticker = "full"
    /\ ticker' = "empty"
    /\ Report("run", TRUE)
    /\ UNCHANGED <<now, cvars, xvars, creates, running, stopCh, qmu, cancelled, counters, rpc,
                   spc, sloc, creates, ops, stops, lastCreate>>

\* runTicker, case <-t.C: fn(), which is report(false)
RunTick ==
    /\ rpc = "select"
    /\ ticker = "full"
    /\ ticker' = "empty"
    /\ Report("run", FALSE)
    /\ UNCHANGED <<now, cvars, xvars, creates, running, stopCh, qmu, cancelled, counters, rpc,
                   spc, sloc, creates, ops, stops, lastCreate>>

\* runTicker, case <-q.ctx.Done(): stop() is entered
RunCancel ==
    /\ rpc = "select"
    /\ cancelled
    /\ rpc' = "stopLock"
    /\ UNCHANGED <<now, cvars, xvars, creates, running, stopCh, qmu, cancelled, ticker, counters,
                   ctrs, spc, sloc, creates, ops, flushes, stops, lastCreate>>

\* runTicker, case <-q.stop: the value thread t is sending in terminate is
\* received (the channel has no buffer), stop() is entered
RunStop(t) ==
    /\ rpc = "select"
    /\ spc[t] = "send"
    /\ rpc' = "stopLock"
    /\ spc' = [spc EXCEPT ![t] = "unlock"]
    /\ UNCHANGED <<now, cvars, xvars, creates, running, stopCh, qmu, cancelled, ticker, counters,
                   ctrs, sloc, creates, ops, flushes, stops, lastCreate>>

\* stop() that leaves q.running as it is
RunStopLock_StillRunning ==
    /\ rpc = "stopLock"
    /\ qmu = "free"
    /\ qmu' = "run"
    /\ running' = running
    /\ stopCh' = IF stopCh = "open" THEN "closed" ELSE "panic"
    /\ rpc' = "sendStopped"
    /\ UNCHANGED <<now, cvars, xvars, cancelled, ticker, counters, ctrs, spc, sloc, creates, ops,
                   flushes, stops, lastCreate>>

\* stop(): q.mu.Lock(); q.running = false; close(q.stop)
RunStopLock ==
    /\ rpc = "stopLock"
    /\ qmu = "free"
    /\ qmu' = "run"
    /\ running' = FALSE
    /\ stopCh' = IF stopCh = "open" THEN "closed" ELSE "panic"
    /\ rpc' = "sendStopped"
    /\ UNCHANGED <<now, cvars, xvars, cancelled, ticker, counters, ctrs, spc, sloc, creates, ops,
                   flushes, stops, lastCreate>>

\* stop(): q.stopped <- struct{}{} (no buffer), received by thread t
\* waiting in terminate
RunSendStopped(t) ==
    /\ rpc = "sendStopped"
    /\ spc[t] = "recv"
    /\ rpc' = "stopUnlock"
    /\ spc' = [spc EXCEPT ![t] = "report"]
    /\ UNCHANGED <<now, cvars, xvars, creates, running, stopCh, qmu, cancelled, ticker, counters,
                   ctrs, sloc, creates, ops, flushes, stops, lastCreate>>

\* stop(): q.mu.Unlock(); runTicker and run return
RunStopUnlock ==
    /\ rpc = "stopUnlock"
    /\ qmu' = "free"
    /\ rpc' = "exited"
    /\ UNCHANGED <<now, cvars, xvars, creates, running, stopCh, cancelled, ticker, counters,
                   ctrs, spc, sloc, creates, ops, flushes, stops, lastCreate>>

\* thread t calls Stop()
StopCall(t) ==
    /\ spc[t] = "idle"
    /\ ops' = ops + 1
    /\ spc' = [spc EXCEPT ![t] = "lock"]
    /\ sloc' = [sloc EXCEPT ![t] = [runningAtCall |-> running,
                                    flushesAtCall |-> Len(flushes),
                                    signalled |-> FALSE]]
    /\ UNCHANGED <<now, cvars, xvars, creates, running, stopCh, qmu, cancelled, ticker, counters,
                   ctrs, rpc, flushes, stops, lastCreate>>

\* terminate() that sends on q.stop whatever q.running is
StopLock_NoCheck(t) ==
    /\ spc[t] = "lock"
    /\ qmu = "free"
    /\ qmu' = t
    /\ spc' = [spc EXCEPT ![t] = "send"]
    /\ sloc' = [sloc EXCEPT ![t].signalled = TRUE]
    /\ UNCHANGED <<now, cvars, xvars, creates, running, stopCh, cancelled, ticker, counters,
                   ctrs, rpc, ops, flushes, stops, lastCreate>>

\* terminate(): q.mu.Lock(); unlock and return if not running, else go on
\* to send on q.stop with the mutex held
StopLock(t) ==
    /\ spc[t] = "lock"
    /\ qmu = "free"
    /\ IF ~running
       THEN /\ spc' = [spc EXCEPT ![t] = "report"]
            /\ UNCHANGED <<qmu, sloc>>
       ELSE /\ qmu' = t
            /\ spc' = [spc EXCEPT ![t] = "send"]
            /\ sloc' = [sloc EXCEPT ![t].signalled = TRUE]
    /\ UNCHANGED <<now, cvars, xvars, creates, running, stopCh, cancelled, ticker, counters,
                   ctrs, rpc, ops, flushes, stops, lastCreate>>

\* terminate(): q.mu.Unlock() after the send, then wait on q.stopped
StopUnlock(t) ==
    /\ spc[t] = "unlock"
    /\ qmu' = "free"
    /\ spc' = [spc EXCEPT ![t] = "recv"]
    /\ UNCHANGED <<now, cvars, xvars, creates, running, stopCh, cancelled, ticker, counters,
                   ctrs, rpc, sloc, creates, ops, flushes, stops, lastCreate>>

\* Stop(): q.report(true) after terminate has returned; Stop() returns
StopReport(t) ==
    /\ spc[t] = "report"
    /\ Report(t, TRUE)
    /\ stops' = Append(stops,
          [by |-> t, runningAtCall |-> sloc[t].runningAtCall,
           flushesAtCall |-> sloc[t].flushesAtCall,
           signalled |-> sloc[t].signalled,
           alone |-> \A u \in StopThreads \ {t} : spc[u] = "idle",
           flushes |-> Len(flushes) + 1, running |-> running, rpc |-> rpc,
           ticks |-> Cardinality({i \in 1..Len(flushes) : flushes[i].by = "run"})])
    /\ spc' = [spc EXCEPT ![t] = "idle"]
    /\ sloc' = [sloc EXCEPT ![t] = SlocInit]
    /\ UNCHANGED <<now, cvars, xvars, creates, running, stopCh, qmu, cancelled, ticker, counters,
                   rpc, ops, lastCreate>>

\* the state of SpecClient after New(): one clock for client and counters
InitClient ==
    /\ interval = ClientStepSec
    /\ now = TimeUnix(StartSec, 0)
    /\ counts = EmptyMap
    /\ cells = <<>>
    /\ mu = "free"
    /\ pc = [t \in Threads |-> "idle"]
    /\ loc = [t \in Threads |-> LocInit]
    /\ log = <<>>
    /\ takes = <<>>
    /\ trace = [order |-> <<>>, order2 |-> <<>>]
    /\ keyOut = [called |-> FALSE, key |-> 0]
    /\ pointOut = NoPoint
    /\ QInit

RunNext ==
    \/ RunStart
    \/ RunTick
    \/ RunCancel
    \/ \E t \in StopThreads : RunStop(t)
    \/ RunStopLock
    \/ \E t \in StopThreads : RunSendStopped(t)
    \/ RunStopUnlock

StopNext(t) ==
    \/ StopLock(t)
    \/ StopUnlock(t)
    \/ StopReport(t)

NextClient ==
    \/ RunStart
    \/ RunTick
    \/ RunCancel
    \/ \E t \in StopThreads : RunStop(t)
    \/ RunStopLock
    \/ \E t \in StopThreads : RunSendStopped(t)
    \/ RunStopUnlock
    \/ \E t \in StopThreads : ops < MaxClientOps /\ StopCall(t)
    \/ \E t \in StopThreads : StopLock(t)
    \/ \E t \in StopThreads : StopUnlock(t)
    \/ \E t \in StopThreads : StopReport(t)
    \/ \E labels \in ValidLabelInputs :
          /\ ops < MaxClientOps
          /\ creates < MaxCreates
          /\ CreateCounter(ValidName, labels, ClientStepSec)
    \/ \E p \in 1..Len(ctrs) : ops < MaxClientOps /\ CountOn(p)
    \/ ops < MaxClientOps /\ ClientClockJump
    \/ ops < MaxClientOps /\ Tick
    \/ ops < MaxClientOps /\ Cancel

SpecClient == InitClient /\ [][NextClient]_vars

\* CreateCounter alone, on every input
NextRegister ==
    \E name \in NameInputs, labels \in LabelInputs, i \in IntervalInputs :
        /\ creates < MaxRegisterCalls
        /\ CreateCounter(name, labels, i)

SpecRegister == InitClient /\ [][NextRegister]_vars

\* the client with one Stop() caller, no cancellation, and Count() in
\* its two steps
NextFlush ==
    \/ RunStart
    \/ RunTick
    \/ RunStop("s1")
    \/ RunStopLock
    \/ RunSendStopped("s1")
    \/ RunStopUnlock
    \/ ops < MaxFlushOps /\ StopCall("s1")
    \/ StopLock("s1")
    \/ StopUnlock("s1")
    \/ StopReport("s1")
    \/ \E labels \in ValidLabelInputs :
          /\ ops < MaxFlushOps
          /\ creates < MaxCreates
          /\ CreateCounter(ValidName, labels, ClientStepSec)
    \/ \E p \in 1..Len(ctrs) : ops < MaxFlushOps /\ CountBegin(p)
    \/ CountFinish
    \/ ops < MaxFlushOps /\ ClientClockJump
    \/ ops < MaxFlushOps /\ Tick

SpecFlush == InitClient /\ [][NextFlush]_vars

\* the client whose Run() is never called: counters are registered and
\* counted on over several windows, and Stop() reports them
NextBatch ==
    \/ ops < MaxBatchOps /\ StopCall("s1")
    \/ StopLock("s1")
    \/ StopReport("s1")
    \/ \E labels \in ValidLabelInputs :
          /\ ops < MaxBatchOps
          /\ creates < MaxCreates
          /\ CreateCounter(ValidName, labels, ClientStepSec)
    \/ \E p \in 1..Len(ctrs) : ops < MaxBatchOps /\ CountOn(p)
    \/ ops < MaxBatchOps /\ ClientClockJump

SpecBatch == InitClient /\ [][NextBatch]_vars

\* CreateCounter by thread t up to the construction of mc: the checks of
\* name and label keys, newCounter, and the metricCounter
CreateCounterBegin(t, name, labels, i) ==
    /\ reg[t].pc = "idle"
    /\ ops' = ops + 1
    /\ LET bad == {key \in DOMAIN labels : ~isMetricLabelKeyValid(key)}
           n == newCounter(i)
       IN  IF ~isMetricTypeValid(name) \/ bad # {} \/ n.err # NoError
           THEN UNCHANGED <<ctrs, reg>>
           ELSE LET mc == [metric |-> [type |-> MetricType(name),
                                       labels |-> labels],
                           counter |-> Len(ctrs) + 1]
                IN  /\ ctrs' = Append(ctrs, n.counter)
                    /\ reg' = [reg EXCEPT ![t].pc = "load", ![t].mc = mc]
    /\ UNCHANGED <<now, cvars, cnt, rpc2, pointOut, resourceName, resourceLabels,
                   lastOption, running, stopCh, qmu, cancelled, ticker, counters,
                   rpc, spc, sloc, creates, flushes, stops, lastCreate>>

\* q.counters = append(q.counters, mc): the read of q.counters; no lock
\* is held
CreateCounterLoad(t) ==
    /\ reg[t].pc = "load"
    /\ reg' = [reg EXCEPT ![t].pc = "store", ![t].slice = counters]
    /\ UNCHANGED <<now, cvars, cnt, rpc2, pointOut, resourceName, resourceLabels,
                   lastOption, running, stopCh, qmu, cancelled, ticker, counters,
                   ctrs, rpc, spc, sloc, creates, ops, flushes, stops, lastCreate>>

\* q.counters = append(q.counters, mc): the write of q.counters, and
\* return mc.counter, nil
CreateCounterStore(t) ==
    /\ reg[t].pc = "store"
    /\ counters' = appendBinding(reg[t].slice, reg[t].mc)
    /\ reg' = [reg EXCEPT ![t].pc = "idle",
                          ![t].returned = Append(@, reg[t].mc.counter)]
    /\ UNCHANGED <<now, cvars, cnt, rpc2, pointOut, resourceName, resourceLabels,
                   lastOption, running, stopCh, qmu, cancelled, ticker, ctrs,
                   rpc, spc, sloc, creates, ops, flushes, stops, lastCreate>>

\* two threads registering counters with valid arguments while counters
\* are counted on and Stop() reports
NextRegRace ==
    \/ \E t \in RegThreads, labels \in ValidLabelInputs :
          /\ ops < MaxRegOps
          /\ CreateCounterBegin(t, ValidName, labels, ClientStepSec)
    \/ \E t \in RegThreads : CreateCounterLoad(t)
    \/ \E t \in RegThreads : CreateCounterStore(t)
    \/ \E p \in 1..Len(ctrs) : ops < MaxRegOps /\ CountOn(p)
    \/ ops < MaxRegOps /\ ClientClockJump
    \/ ops < MaxRegOps /\ StopCall("s1")
    \/ StopLock("s1")
    \/ StopReport("s1")

SpecRegRace == InitClient /\ [][NextRegRace]_vars

\* the windows countToMetricPointProto is applied to: the one of the
\* package's test, and windows whose end is a whole second, less than a
\* millisecond past it, or a millisecond or more past it
PointStarts == {TimeUnix(sec, nsec) : sec \in {0, StartSec, 1672693348},
                                      nsec \in {0, 999999999}}
PointLengths == {1, 2, 60}
PointEndNanos == {0, 999999, 1000000}
PointCounts == {0, 1, 365}
PointInputs ==
    {[start |-> st, end |-> TimeUnix(st.sec + len, nsec), count |-> v] :
        st \in PointStarts, len \in PointLengths,
        nsec \in PointEndNanos, v \in PointCounts}

InitPoint ==
    /\ interval = ClientStepSec
    /\ now = TimeUnix(StartSec, 0)
    /\ counts = EmptyMap
    /\ cells = <<>>
    /\ mu = "free"
    /\ pc = [t \in Threads |-> "idle"]
    /\ loc = [t \in Threads |-> LocInit]
    /\ log = <<>>
    /\ takes = <<>>
    /\ trace = [order |-> <<>>, order2 |-> <<>>]
    /\ keyOut = [called |-> FALSE, key |-> 0]
    /\ pointOut \in {[NoPoint EXCEPT !.in = w] : w \in PointInputs}
    /\ QInit

\* countToMetricPointProto(count) is called
CountToPointCall ==
    /\ ~pointOut.called
    /\ pointOut' = [pointOut EXCEPT !.called = TRUE,
                                    !.out = countToMetricPointProto(pointOut.in)]
    /\ UNCHANGED <<now, cvars, reg, cnt, rpc2, resourceName, resourceLabels, lastOption,
                   running, stopCh, qmu, cancelled, ticker, counters, ctrs, rpc, spc,
                   sloc, creates, ops, flushes, stops, lastCreate>>

NextPoint == CountToPointCall

SpecPoint == InitPoint /\ [][NextPoint]_vars

\* a struct field of a Resource: tagged says whether it carries a
\* cloud_resource_field tag, kind is its reflect.Kind
Field(tagged, tag, kind, value) ==
    [tagged |-> tagged, tag |-> tag, kind |-> kind, value |-> value]

resourceLabelKeyProjectId == "project_id"
ErrInvalidResourceFieldType == "field tagged as cloud_resource_field isn't of type string"
\* fmt.Errorf("missing required %s resource label", key)
ErrMissingLabel(key) ==
    IF key = "project_id"
    THEN "missing required project_id resource label"
    ELSE "missing required resource label"

\* the resources OptionWithResourceType is applied to: the package's
\* resource types with and without their project id, the test's mockResource,
\* a struct with a field that has no tag, and one whose tagged field is
\* not a string
ResourceInputs ==
    { [name |-> "global",
       fields |-> <<Field(TRUE, "project_id", "string", "test-project")>>],
      [name |-> "global",
       fields |-> <<Field(TRUE, "project_id", "string", "")>>],
      [name |-> "generic_node",
       fields |-> <<Field(TRUE, "project_id", "string", "test-project"),
                    Field(TRUE, "location", "string", "test-location"),
                    Field(TRUE, "namespace", "string", ""),
                    Field(TRUE, "node_id", "string", "test-node-id")>>],
      [name |-> "generic_node",
       fields |-> <<Field(TRUE, "project_id", "string", ""),
                    Field(TRUE, "location", "string", "test-location"),
                    Field(TRUE, "namespace", "string", "test-namespace"),
                    Field(TRUE, "node_id", "string", "test-node-id")>>],
      [name |-> "gce_instance",
       fields |-> <<Field(TRUE, "project_id", "string", "test-project"),
                    Field(TRUE, "instance_id", "string", "test-instance"),
                    Field(TRUE, "zone", "string", "test-zone")>>],
      [name |-> "generic_task",
       fields |-> <<Field(TRUE, "project_id", "string", "other-project"),
                    Field(TRUE, "location", "string", ""),
                    Field(TRUE, "namespace", "string", ""),
                    Field(TRUE, "job", "string", "test-job"),
                    Field(TRUE, "task_id", "string", "test-task")>>],
      [name |-> "generic_task",
       fields |-> <<Field(TRUE, "project_id", "string", ""),
                    Field(TRUE, "location", "string", ""),
                    Field(TRUE, "namespace", "string", ""),
                    Field(TRUE, "job", "string", "test-job"),
                    Field(TRUE, "task_id", "string", "")>>],
      [name |-> "mock_resource", fields |-> <<>>],
      [name |-> "untagged",
       fields |-> <<Field(FALSE, "", "string", "test-project"),
                    Field(TRUE, "location", "string", "test-location")>>],
      [name |-> "counted",
       fields |-> <<Field(TRUE, "project_id", "string", "test-project"),
                    Field(TRUE, "count", "int", "")>>] }

\* the loop of flatten over the struct's fields, from field i on
RECURSIVE flattenFrom(_, _, _)
flattenFrom(fields, i, result) ==
    IF i > Len(fields)
    THEN [result |-> [nil |-> FALSE, map |-> result], err |-> NoError]
    ELSE LET f == fields[i]
         IN  IF ~f.tagged
             THEN flattenFrom(fields, i + 1, result)
             ELSE IF f.kind # "string"
             THEN [result |-> NilLabels, err |-> ErrInvalidResourceFieldType]
             ELSE IF f.value = ""
             THEN flattenFrom(fields, i + 1, result)
             ELSE flattenFrom(fields, i + 1, MapPut(result, f.tag, f.value))

\* flatten(v)
flatten(v) == flattenFrom(v.fields, 1, EmptyMap)

\* the option assigning the client's fields before it looks for the
\* project id
OptionWithResourceType_SetFirst(resource) ==
    /\ ops' = ops + 1
    /\ LET call == [called |-> TRUE, resource |-> resource, err |-> NoError,
                    nameBefore |-> resourceName, labelsBefore |-> resourceLabels]
           r == flatten(resource)
           ok == resourceLabelKeyProjectId \in DOMAIN r.result.map
           value == IF ok THEN r.result.map[resourceLabelKeyProjectId] ELSE ""
       IN  IF r.err # NoError
           THEN /\ lastOption' = [call EXCEPT !.err = r.err]
                /\ UNCHANGED <<resourceName, resourceLabels>>
           ELSE /\ resourceLabels' = r.result
                /\ resourceName' = resource.name
                /\ lastOption' =
                      IF ~ok \/ value = ""
                      THEN [call EXCEPT !.err = ErrMissingLabel(resourceLabelKeyProjectId)]
                      ELSE call
    /\ UNCHANGED <<now, cvars, reg, cnt, rpc2, pointOut, running, stopCh, qmu, cancelled,
                   ticker, counters, ctrs, rpc, spc, sloc, creates, flushes, stops,
                   lastCreate>>

\* the Option OptionWithResourceType(resource) returns, applied to the
\* client
OptionWithResourceType(resource) ==
    /\ ops' = ops + 1
    /\ LET call == [called |-> TRUE, resource |-> resource, err |-> NoError,
                    nameBefore |-> resourceName, labelsBefore |-> resourceLabels]
           r == flatten(resource)
           ok == resourceLabelKeyProjectId \in DOMAIN r.result.map
           value == IF ok THEN r.result.map[resourceLabelKeyProjectId] ELSE ""
       IN  IF r.err # NoError
           THEN /\ lastOption' = [call EXCEPT !.err = r.err]
                /\ UNCHANGED <<resourceName, resourceLabels>>
           ELSE IF ~ok \/ value = ""
           THEN /\ lastOption' = [call EXCEPT !.err = ErrMissingLabel(resourceLabelKeyProjectId)]
                /\ UNCHANGED <<resourceName, resourceLabels>>
           ELSE /\ resourceLabels' = r.result
                /\ resourceName' = resource.name
                /\ lastOption' = call
    /\ UNCHANGED <<now, cvars, reg, cnt, rpc2, pointOut, running, stopCh, qmu, cancelled,
                   ticker, counters, ctrs, rpc, spc, sloc, creates, flushes, stops,
                   lastCreate>>

\* options applied one after the other to one client
NextOption ==
    \E resource \in ResourceInputs :
        /\ ops < MaxOptionCalls
        /\ OptionWithResourceType(resource)

SpecOption == InitClient /\ [][NextOption]_vars

\* a second goroutine calls run() on the client
RunAgain ==
    /\ rpc2 = "none"
    /\ ops' = ops + 1
    /\ rpc2' = "start"
    /\ UNCHANGED <<now, cvars, reg, cnt, pointOut, resourceName, resourceLabels, lastOption,
                   running, stopCh, qmu, cancelled, ticker, counters, ctrs, rpc, spc,
                   sloc, creates, flushes, stops, lastCreate>>

\* run() without its test of q.running
Run2Start_NoCheck ==
    /\ rpc2 = "start"
    /\ qmu = "free"
    /\ running' = TRUE
    /\ stopCh' = "open"
    /\ ticker' = "empty"
    /\ rpc2' = "loop"
    /\ UNCHANGED <<now, cvars, reg, cnt, pointOut, resourceName, resourceLabels, lastOption,
                   qmu, cancelled, counters, ctrs, rpc, spc, sloc, creates, ops,
                   flushes, stops, lastCreate>>

\* run() of the second goroutine, from q.mu.Lock() to q.mu.Unlock(): it
\* returns if q.running, else sets running, makes a new stop channel and
\* enters runTicker with a new ticker (its loop is not followed further)
Run2Start ==
    /\ rpc2 = "start"
    /\ qmu = "free"
    /\ IF running
       THEN /\ rpc2' = "returned"
            /\ UNCHANGED <<running, stopCh, ticker>>
       ELSE /\ running' = TRUE
            /\ stopCh' = "open"
            /\ ticker' = "empty"
            /\ rpc2' = "loop"
    /\ UNCHANGED <<now, cvars, reg, cnt, pointOut, resourceName, resourceLabels, lastOption,
                   qmu, cancelled, counters, ctrs, rpc, spc, sloc, creates, ops,
                   flushes, stops, lastCreate>>

\* the client's lifecycle with one Stop() caller and a second call of run()
NextRun ==
    \/ RunStart
    \/ RunTick
    \/ RunCancel
    \/ RunStop("s1")
    \/ RunStopLock
    \/ RunSendStopped("s1")
    \/ RunStopUnlock
    \/ ops < MaxRunOps /\ StopCall("s1")
    \/ StopLock("s1")
    \/ StopUnlock("s1")
    \/ StopReport("s1")
    \/ ops < MaxRunOps /\ Tick
    \/ ops < MaxRunOps /\ Cancel
    \/ ops < MaxRunOps /\ RunAgain
    \/ Run2Start

SpecRun == InitClient /\ [][NextRun]_vars

\* every step of the run goroutine and of every Stop() caller is taken
\* when it stays possible: the Go scheduler runs every runnable goroutine
SpecClientFair ==
    /\ InitClient
    /\ [][NextClient]_vars
    /\ WF_vars(RunNext)
    /\ \A t \in StopThreads : WF_vars(StopNext(t))

----------------------------------------------------------------------------
(* Claims about whole calls (Spec) *)

TakeIds == 1..Len(takes)

\* the key takePoints call i computed from the clock
FrameOf(i) == getKey(takes[i].at, interval)

\* response holds a window starting at key k
HasWindow(response, k) ==
    \E x \in 1..Len(response) : response[x].start = TimeUnix(k, 0)

\* number of the first n Count() calls that incremented cell c
CellCalls(c, n) == Cardinality({x \in 1..n : log[x].cell = c})

\* the clock reading at lies in the window starting at k
InBucket(at, k) ==
    /\ ~Before(at, TimeUnix(k, 0))
    /\ Before(at, TimeUnix(k + interval, 0))

\* the window starting at k has elapsed at the clock reading at
Elapsed(k, at) == ~Before(at, TimeUnix(k + interval, 0))

\* C3: takePoints(false) returns no window starting at the key of the
\* clock at the call, and the bucket of that key stays in the map.
C3_NeverCurrent ==
    \A i \in TakeIds :
        ~takes[i].current =>
            /\ ~HasWindow(takes[i].response, FrameOf(i))
            /\ FrameOf(i) \in DOMAIN takes[i].before =>
                  /\ FrameOf(i) \in DOMAIN takes[i].after
                  /\ takes[i].after[FrameOf(i)] = takes[i].before[FrameOf(i)]

\* a takePoints(false) that found the current bucket and returned an
\* older one
C3_Witness ==
    \E i \in TakeIds :
        /\ ~takes[i].current
        /\ FrameOf(i) \in DOMAIN takes[i].before
        /\ takes[i].response # <<>>

\* C4: takePoints(true) returns a window for the current key when its
\* bucket exists, and one for every older bucket, each with the bucket's
\* total, and leaves the map empty.
C4_IncludesCurrent ==
    \A i \in TakeIds :
        takes[i].current =>
            /\ takes[i].after = EmptyMap
            /\ Len(takes[i].response) = Cardinality(DOMAIN takes[i].before)
            /\ \A k \in DOMAIN takes[i].before :
                  \E x \in 1..Len(takes[i].response) :
                      takes[i].response[x] =
                          Window(k, CellCalls(takes[i].before[k], takes[i].ncalls), interval)

\* a takePoints(true) that found the current bucket and an older one
C4_Witness ==
    \E i \in TakeIds :
        /\ takes[i].current
        /\ FrameOf(i) \in DOMAIN takes[i].before
        /\ \E k \in DOMAIN takes[i].before : k < FrameOf(i)
        /\ HasWindow(takes[i].response, FrameOf(i))

\* C5: one takePoints(false) removes and returns every bucket whose key is
\* below the current key, in every traversal order, with or without a
\* bucket for the current key.
C5_AllCompleted ==
    \A i \in TakeIds :
        ~takes[i].current =>
            \A k \in DOMAIN takes[i].before :
                k < FrameOf(i) =>
                    /\ k \notin DOMAIN takes[i].after
                    /\ HasWindow(takes[i].response, k)

\* the last call was takePoints(false), Range came to the current bucket
\* first and an older bucket after it
C5_Witness ==
    /\ takes # <<>>
    /\ ~takes[Len(takes)].current
    /\ Len(trace.order) >= 2
    /\ trace.order[1] = FrameOf(Len(takes))
    /\ trace.order[2] < FrameOf(Len(takes))
    /\ HasWindow(takes[Len(takes)].response, trace.order[2])

\* takePoints calls i-1 and i have the same flag and no Count() between
InARow(i) ==
    /\ takes[i].ncalls = takes[i - 1].ncalls
    /\ takes[i].current = takes[i - 1].current

\* C6 as stated: of two takePoints calls in a row (same flag, no Count()
\* in between) the second returns an empty sequence.
C6_Original ==
    \A i \in 2..Len(takes) : InARow(i) => takes[i].response = <<>>

\* C6 amended: ... the second returns an empty sequence when the flag is
\* true, or when the clock is still in the same bucket window.
C6_Idempotent ==
    \A i \in 2..Len(takes) :
        (InARow(i) /\ (takes[i].current \/ FrameOf(i) = FrameOf(i - 1)))
            => takes[i].response = <<>>

\* two takePoints(false) in a row at one clock reading, the first of which
\* returned a window and left the current bucket
C6_Witness ==
    \E i \in 2..Len(takes) :
        /\ InARow(i)
        /\ ~takes[i].current
        /\ FrameOf(i) = FrameOf(i - 1)
        /\ takes[i - 1].response # <<>>
        /\ takes[i].before # EmptyMap
        /\ takes[i].response = <<>>

\* C7: the sequence takePoints returns is in strictly ascending order of
\* window start.
C7_Sorted ==
    \A i \in TakeIds :
        \A x, y \in 1..Len(takes[i].response) :
            x < y => Before(takes[i].response[x].start, takes[i].response[y].start)

\* the last call returned two windows or more and ranged completedCounts
\* with a later key first
C7_Witness ==
    /\ takes # <<>>
    /\ Len(takes[Len(takes)].response) >= 2
    /\ trace.order2[1] > trace.order2[2]

\* the buckets a takePoints(false) call i is to return: keys that got a
\* Count(), whose window has elapsed at call i and had not at any call before
Due(i) ==
    {k \in {log[x].key : x \in 1..takes[i].ncalls} :
        /\ Elapsed(k, takes[i].at)
        /\ \A j \in 1..(i - 1) : ~Elapsed(k, takes[j].at)}

\* number of the first n Count() calls made while the clock was in the
\* window starting at k
BucketCalls(k, n) == Cardinality({x \in 1..n : InBucket(log[x].at, k)})

\* C8: after Count() calls and clock advances, takePoints(false) returns
\* exactly one window per elapsed bucket that got a Count(): start the key,
\* end start + interval, total the number of Count() calls made while the
\* clock was in the bucket.
C8_ExactWindows ==
    \A i \in TakeIds :
        (\A j \in 1..i : ~takes[j].current) =>
            /\ Len(takes[i].response) = Cardinality(Due(i))
            /\ \A k \in Due(i) :
                  \E x \in 1..Len(takes[i].response) :
                      takes[i].response[x] =
                          Window(k, BucketCalls(k, takes[i].ncalls), interval)

\* the scenario of the tests: counts in two windows, both elapsed, one
\* takePoints(false) returning two windows with totals 2 and 1
C8_Witness ==
    /\ takes # <<>>
    /\ ~takes[1].current
    /\ Len(takes[1].response) = 2
    /\ takes[1].response[1].count = 2
    /\ takes[1].response[2].count = 1
    /\ takes[1].response[2].start.sec = takes[1].response[1].start.sec + interval

\* the takePoints calls that returned a window made from cell c of key k
DrainsOf(k, c) ==
    {j \in TakeIds :
        /\ k \in DOMAIN takes[j].before
        /\ takes[j].before[k] = c
        /\ HasWindow(takes[j].response, k)}

\* C9: a bucket that takePoints(false) left in place as the current one
\* goes on taking increments; a later takePoints made after the clock left
\* its window returns it, with all increments made before and after the
\* earlier call; no two calls return it.
C9_LeftThenDrainedOnce ==
    \A i \in TakeIds :
        (~takes[i].current /\ FrameOf(i) \in DOMAIN takes[i].after) =>
            LET k == FrameOf(i)
                c == takes[i].after[k]
            IN  /\ Cardinality(DrainsOf(k, c)) <= 1
                /\ \A j \in DrainsOf(k, c) :
                      /\ j > i
                      /\ \E x \in 1..Len(takes[j].response) :
                            takes[j].response[x] =
                                Window(k, CellCalls(c, takes[j].ncalls), interval)
                /\ \A j \in (i + 1)..Len(takes) :
                      (/\ k \in DOMAIN takes[j].before
                       /\ takes[j].before[k] = c
                       /\ FrameOf(j) > k) =>
                          /\ j \in DrainsOf(k, c)
                          /\ k \notin DOMAIN takes[j].after
                /\ (k \in DOMAIN counts /\ counts[k] = c) =>
                      cells[c] = CellCalls(c, Len(log))

\* a bucket counted into, left by takePoints(false), counted into again
\* and returned by a later call with both increments
C9_Witness ==
    \E i, j \in TakeIds :
        /\ i < j
        /\ ~takes[i].current
        /\ FrameOf(i) \in DOMAIN takes[i].after
        /\ FrameOf(j) > FrameOf(i)
        /\ CellCalls(takes[i].after[FrameOf(i)], takes[i].ncalls) = 1
        /\ \E x \in 1..Len(takes[j].response) :
              takes[j].response[x] = Window(FrameOf(i), 2, interval)

----------------------------------------------------------------------------
(* Claims about calls in steps (SpecConc) *)

\* the key of the window the clock starts in
FirstKey == getKey(TimeUnix(StartSec, 0), interval)

\* the total the bucket of key k holds
BucketTotal(k) == IF k \in DOMAIN counts THEN cells[counts[k]] ELSE 0

\* no takePoints(true) has been called
NoCurrentDrain ==
    /\ \A i \in TakeIds : ~takes[i].current
    /\ \A t \in DrainThreads : pc[t] # "idle" => ~loc[t].current

\* every Count() so far took its clock reading in the first window and had
\* returned before the clock reading of any takePoints made after that
\* window; none is in progress
CountsInFirstWindow ==
    /\ log # <<>>
    /\ \A t \in CountThreads : pc[t] = "idle"
    /\ \A x \in 1..Len(log) : InBucket(log[x].at, FirstKey)
    /\ \A i \in TakeIds :
          Elapsed(FirstKey, takes[i].at) => takes[i].ncalls = Len(log)

\* C1: while the clock stays in one window the bucket of that window holds
\* as many as Count() calls have been made, whatever the interleaving of
\* their steps; the first takePoints(false) after the window returns one
\* window with that total, and no other call returns anything.
C1_WindowTotal ==
    NoCurrentDrain =>
        /\ InBucket(now, FirstKey) => BucketTotal(FirstKey) = Len(log)
        /\ CountsInFirstWindow =>
              \A i \in TakeIds :
                  takes[i].response =
                      IF /\ Elapsed(FirstKey, takes[i].at)
                         /\ \A j \in 1..(i - 1) : ~Elapsed(FirstKey, takes[j].at)
                      THEN <<Window(FirstKey, Len(log), interval)>>
                      ELSE <<>>

\* two Count() calls of two threads in the first window, then a
\* takePoints(false) that returned the window with total 2
C1_Witness ==
    /\ NoCurrentDrain
    /\ CountsInFirstWindow
    /\ Len(log) = 2
    /\ log[1].by # log[2].by
    /\ \E i \in TakeIds : takes[i].response = <<Window(FirstKey, 2, interval)>>

RECURSIVE SumOver(_, _)
SumOver(S, f) ==
    IF S = {} THEN 0
    ELSE LET x == CHOOSE y \in S : TRUE IN f[x] + SumOver(S \ {x}, f)

\* sum of the totals of all windows all takePoints calls returned
Returned ==
    SumOver(TakeIds,
            [i \in TakeIds |->
                SeqSum([x \in 1..Len(takes[i].response) |-> takes[i].response[x].count])])

\* sum of the totals the bucket map holds
Held == SumOver(DOMAIN counts, Values(counts, cells))

\* C2: no increment is lost or counted twice: with no takePoints in
\* progress, the totals returned plus the totals held equal the number of
\* completed Count() calls. Stated for takePoints(false), where the caller
\* promises nothing about concurrent Count() calls.
C2_NoLostIncrement ==
    (NoCurrentDrain /\ \A t \in DrainThreads : pc[t] = "idle") =>
        Returned + Held = Len(log)

----------------------------------------------------------------------------
(* Claims about getKey (SpecKey) *)

\* C10: getKey returns floor(T / I) * I, T the clock reading in seconds
\* since the Unix epoch and I the interval.
C10_FloorDivision ==
    keyOut.called => keyOut.key = (now.sec \div interval) * interval

----------------------------------------------------------------------------
(* Claims about registration (SpecRegister) *)

\* C11: newCounter(interval) returns the invalid-interval error and no
\* counter when interval <= 0, and for interval > 0 no error and a counter
\* with that interval and an empty bucket map.
C11_NewCounter ==
    lastCreate.made =>
        IF lastCreate.madeWith <= 0
        THEN /\ lastCreate.madeErr = ErrInterval
             /\ lastCreate.madeCounter.nil
        ELSE /\ lastCreate.madeErr = NoError
             /\ ~lastCreate.madeCounter.nil
             /\ lastCreate.madeCounter.interval = lastCreate.madeWith
             /\ lastCreate.madeCounter.counts = EmptyMap

\* newCounter has succeeded once and then failed on a negative interval
C11_Witness ==
    /\ lastCreate.made
    /\ lastCreate.madeWith < 0
    /\ lastCreate.madeErr = ErrInterval
    /\ Len(ctrs) >= 1

\* the arguments of the last CreateCounter call are invalid
InvalidArguments ==
    \/ ~reMetricTypeMatch(lastCreate.name)
    \/ \E key \in DOMAIN lastCreate.labels : ~reMetricLabelKeyMatch(key)
    \/ lastCreate.interval <= 0

\* C12: a CreateCounter call that returns an error (as it does for an
\* invalid name, an invalid label key or an interval <= 0) returns no
\* counter and leaves the registered collection as it was before the call.
C12_ErrorLeavesRegistry ==
    lastCreate.called =>
        /\ InvalidArguments => lastCreate.err # NoError
        /\ lastCreate.err # NoError =>
              /\ lastCreate.ptr = 0
              /\ lastCreate.after = lastCreate.before
              /\ counters = lastCreate.before

\* a binding is registered, then a call with valid name and labels fails
\* on its interval
C12_Witness ==
    /\ lastCreate.called
    /\ lastCreate.err = ErrInterval
    /\ Len(lastCreate.before) >= 1
    /\ counters = lastCreate.before

----------------------------------------------------------------------------
(* Claims about the client (SpecClient, SpecClientFair) *)

\* the last CreateCounter call returned no error
Created == lastCreate.called /\ lastCreate.err = NoError

\* C13: a successful CreateCounter leaves the earlier bindings as they
\* were, in their order, puts exactly one new binding after them and
\* returns the counter of that last binding; no step of any operation
\* removes or moves a binding.
C13_AppendOnly ==
    /\ [](Created =>
            /\ Len(lastCreate.after) = Len(lastCreate.before) + 1
            /\ SubSeq(lastCreate.after, 1, Len(lastCreate.before)) = lastCreate.before
            /\ lastCreate.after[Len(lastCreate.after)] =
                  [metric |-> [type |-> MetricType(lastCreate.name),
                               labels |-> lastCreate.labels],
                   counter |-> lastCreate.ptr]
            /\ lastCreate.ptr \in 1..Len(ctrs)
            /\ ctrs[lastCreate.ptr].interval = lastCreate.interval)
    /\ [][/\ Len(counters') >= Len(counters)
          /\ SubSeq(counters', 1, Len(counters)) = counters]_vars

\* a second binding with other labels is registered after the first, and
\* a report has run since
C13_Witness ==
    /\ Created
    /\ Len(lastCreate.before) = 1
    /\ lastCreate.before[1].metric.labels # lastCreate.labels
    /\ Len(counters) = 2
    /\ Len(flushes) >= 1

\* the periodic flushes among the first n
Periodic(n) == {j \in 1..n : flushes[j].by = "run"}

\* Stop() call i was made on a running client, and no other Stop() call
\* was begun before it returned
LoneStop(i) == i = 1 /\ stops[i].alone /\ stops[i].runningAtCall

IdleStop(i) == ~stops[i].runningAtCall /\ ~stops[i].signalled

\* C15: a Stop() call on a client that is not running invokes no flush:
\* no report is invoked by the caller between its call and its return.
C15_IdleStopNoFlush ==
    \A i \in 1..Len(stops) :
        IdleStop(i) =>
            \A j \in (stops[i].flushesAtCall + 1)..stops[i].flushes :
                flushes[j].by # stops[i].by

\* C16: with the context never cancelled, every Stop() call returns.
C16_StopReturns ==
    ([]~cancelled) =>
        \A t \in StopThreads : [](spc[t] # "idle" => <>(spc[t] = "idle"))

\* the Stop() calls made while the client was running that executed a
\* flush with current = true
FinalFlushes ==
    {i \in 1..Len(stops) :
        stops[i].runningAtCall /\ flushes[stops[i].flushes].current}

\* C17: of the Stop() calls made while the client is running, at most one
\* executes the final flush.
C17_OneFinalFlush == Cardinality(FinalFlushes) <= 1

\* C18: once a Stop() call has returned, running is false and the
\* run-loop invokes no flush.
C18_StoppedForGood ==
    /\ Len(stops) >= 1 => ~running
    /\ \A j \in 1..Len(flushes) :
          flushes[j].by = "run" => flushes[j].stopsReturned = 0

\* C19: the run-loop invokes no flush once the context is cancelled.
C19_NoFlushAfterCancel ==
    \A j \in 1..Len(flushes) : flushes[j].by = "run" => ~flushes[j].cancelled

\* C20: when nobody calls Stop(), a cancellation while the client is
\* running leads to the run goroutine having returned, with running false
\* and q.mu free.
C20_CancelExits ==
    ([](\A t \in StopThreads : spc[t] = "idle")) =>
        [](cancelled /\ running =>
              <>(rpc = "exited" /\ ~running /\ qmu = "free"))

\* C21: when the context is cancelled at some time and one thread calls
\* Stop(), that Stop() call returns.
C21_StopReturnsWhenCancelled ==
    (<>cancelled /\ [](spc["s2"] = "idle")) =>
        [](spc["s1"] # "idle" => <>(spc["s1"] = "idle"))


\* C22: every report the run-loop invokes on a tick has current = false;
\* every report with current = true is the one a Stop() call makes after
\* terminate, as its last step before it returns.
C22_CurrentOnlyFromStop ==
    \A j \in 1..Len(flushes) :
        /\ flushes[j].by = "run" => ~flushes[j].current
        /\ flushes[j].current =>
              /\ flushes[j].by \in StopThreads
              /\ \E i \in 1..Len(stops) :
                    stops[i].flushes = j /\ stops[i].by = flushes[j].by

\* a periodic flush with a counter registered, and later the flush of a
\* Stop() call that has returned
C22_Witness ==
    \E j, k \in 1..Len(flushes) :
        /\ j < k
        /\ flushes[j].by = "run" /\ ~flushes[j].current
        /\ flushes[k].current /\ flushes[k].by \in StopThreads
        /\ Len(counters) > 0
        /\ \E i \in 1..Len(stops) : stops[i].flushes = k


\* C30: close(q.stop) is never executed on a channel that is already closed,
\* and whenever a thread is at the send q.stop <- struct{}{} the channel is
\* open.
C30_StopChannel ==
    /\ stopCh # "panic"
    /\ \A t \in StopThreads : spc[t] = "send" => stopCh = "open"

\* the run-loop has closed the channel, the context is cancelled, one
\* Stop() call has returned and another one is in terminate or has returned
C30_Witness ==
    /\ stopCh = "closed"
    /\ cancelled
    /\ Len(stops) >= 1
    /\ \/ Len(stops) >= 2
       \/ \E t \in StopThreads : spc[t] # "idle"


\* the metrics of the registered bindings
Metrics == {counters[i].metric : i \in 1..Len(counters)}

\* the Counter objects bound to metric m
CountersOf(m) == {counters[i].counter : i \in {j \in 1..Len(counters) : counters[j].metric = m}}

\* the total of the points for metric m in one batch
RECURSIVE BatchValue(_, _)
BatchValue(batch, m) ==
    IF batch = <<>> THEN 0
    ELSE (IF Head(batch).metric = m THEN Head(batch).points[1].value ELSE 0)
         + BatchValue(Tail(batch), m)

\* the total of the points for metric m in a sequence of batches
RECURSIVE BatchesValue(_, _)
BatchesValue(batches, m) ==
    IF batches = <<>> THEN 0
    ELSE BatchValue(Head(batches), m) + BatchesValue(Tail(batches), m)

\* the total for metric m of everything the first n reports handed to
\* CreateTimeSeries, accepted or rejected
RECURSIVE Submitted(_, _)
Submitted(n, m) ==
    IF n = 0 THEN 0
    ELSE BatchesValue(flushes[n].sent, m) + Submitted(n - 1, m)

\* the increments Count() has made on the counters of metric m
Counted(m) ==
    SumOver(CountersOf(m), [p \in CountersOf(m) |-> SeqSum(ctrs[p].cells)])

\* the increments in the bucket maps of the counters of metric m
InMaps(m) ==
    SumOver(CountersOf(m),
            [p \in CountersOf(m) |->
                SumOver(DOMAIN ctrs[p].counts, Values(ctrs[p].counts, ctrs[p].cells))])

\* C27: an increment is handed to the backend at most once and is in no
\* bucket map once it has been handed over, whether the submission failed
\* or not: for every metric, what was counted is what is still in the maps
\* plus what all reports so far submitted, the rejected batches included.
C27_FailedWindowsDropped ==
    \A m \in Metrics : Counted(m) = InMaps(m) + Submitted(Len(flushes), m)

\* a report whose batch was rejected, with a counted window in it, and a
\* later report on the same client
C27_Witness ==
    \E j, k \in 1..Len(flushes) :
        /\ j < k
        /\ flushes[j].failed # {}
        /\ \E m \in Metrics : BatchesValue(flushes[j].sent, m) > 0


\* C23: once a Stop() call that stopped the run-loop has returned, with
\* every Count() call begun and ended before any Stop() call began, every
\* bucket map is empty and, for every metric, what was counted is what the
\* reports handed to the backend.
C23_GracefulStopLossless ==
    (/\ stops # <<>>
     /\ stops[1].signalled
     /\ cnt.pc = "idle"
     /\ ~cnt.late) =>
        /\ \A p \in 1..Len(ctrs) : ctrs[p].counts = EmptyMap
        /\ \A m \in Metrics : Counted(m) = Submitted(Len(flushes), m)


\* C25: in every batch handed to CreateTimeSeries, no two time series have
\* the same metric (type and labels).
C25_OnePointPerMetric ==
    \A j \in 1..Len(flushes) :
        \A b \in 1..Len(flushes[j].sent) :
            \A x, y \in 1..Len(flushes[j].sent[b]) :
                x # y => flushes[j].sent[b][x].metric # flushes[j].sent[b][y].metric


\* the errors the backend returned in report j
ErrorsOf(j) == {ErrBackend(b) : b \in flushes[j].failed}

\* C26: in every report the requests made are the batches built, each once
\* and in their order; the error handler is called once for each rejected
\* batch, with the client and the error of that batch, and is not called
\* for any other.
C26_EveryBatchSubmitted ==
    \A j \in 1..Len(flushes) :
        /\ flushes[j].sent = flushes[j].series
        /\ Len(flushes[j].handled) = Cardinality(flushes[j].failed)
        /\ \A e \in ErrorsOf(j) :
              Cardinality({h \in 1..Len(flushes[j].handled) :
                              flushes[j].handled[h] = [q |-> "q", err |-> e]}) = 1
        /\ \A h \in 1..Len(flushes[j].handled) :
              flushes[j].handled[h].err \in ErrorsOf(j)

\* a report of two batches, the first rejected and the second accepted
C26_Witness ==
    \E j \in 1..Len(flushes) :
        /\ Len(flushes[j].series) = 2
        /\ flushes[j].failed = {1}
        /\ Len(flushes[j].sent) = 2
        /\ Len(flushes[j].handled) = 1


\* C24: the point countToMetricPointProto returns for a window has the
\* window's start as its start time, the instant one millisecond before
\* the window's end as its end time, and the window's total as its value.
C24_PointOfWindow ==
    pointOut.called =>
        LET in == pointOut.in
            out == pointOut.out
        IN  /\ out.startTime = [seconds |-> in.start.sec, nanos |-> in.start.nsec]
            /\ IF in.end.nsec >= 1000000
               THEN out.endTime = [seconds |-> in.end.sec,
                                   nanos |-> in.end.nsec - 1000000]
               ELSE out.endTime = [seconds |-> in.end.sec - 1,
                                   nanos |-> in.end.nsec + 999000000]
            /\ out.value = in.count
            /\ (in.start = TimeUnix(1672693348, 0) /\ in.end = TimeUnix(1672693408, 0))
                  => out.endTime = [seconds |-> 1672693407, nanos |-> 999000000]

\* the window of the package's test has been converted
C24_Witness ==
    /\ pointOut.called
    /\ pointOut.in = [start |-> TimeUnix(1672693348, 0),
                      end |-> TimeUnix(1672693408, 0), count |-> 365]
    /\ pointOut.out.endTime.seconds = 1672693407


\* the resource has a tagged string field project_id that is not empty
HasProjectId(r) ==
    \E i \in 1..Len(r.fields) :
        /\ r.fields[i].tagged
        /\ r.fields[i].tag = "project_id"
        /\ r.fields[i].kind = "string"
        /\ r.fields[i].value # ""

\* every tagged field of the resource is a string: flatten returns labels
Flattens(r) ==
    \A i \in 1..Len(r.fields) : r.fields[i].tagged => r.fields[i].kind = "string"

\* the tagged fields of the resource that have a value
Labelled(r) == {i \in 1..Len(r.fields) : r.fields[i].tagged /\ r.fields[i].value # ""}

\* C28: after OptionWithResourceType is applied with a resource that
\* flattens: without a non-empty project_id it returned the missing-label
\* error and resourceName and resourceLabels are what they were; with one
\* it returned no error, resourceName is the resource's name and
\* resourceLabels are its non-empty tagged fields. No application changes
\* any other field of the client.
C28_OptionWithResourceType ==
    /\ [](lastOption.called /\ Flattens(lastOption.resource) =>
            IF ~HasProjectId(lastOption.resource)
            THEN /\ lastOption.err = "missing required project_id resource label"
                 /\ resourceName = lastOption.nameBefore
                 /\ resourceLabels = lastOption.labelsBefore
            ELSE /\ lastOption.err = NoError
                 /\ resourceName = lastOption.resource.name
                 /\ ~resourceLabels.nil
                 /\ DOMAIN resourceLabels.map =
                       {lastOption.resource.fields[i].tag : i \in Labelled(lastOption.resource)}
                 /\ \A i \in Labelled(lastOption.resource) :
                       resourceLabels.map[lastOption.resource.fields[i].tag] =
                           lastOption.resource.fields[i].value)
    /\ [][lastOption' # lastOption =>
             UNCHANGED <<running, stopCh, qmu, cancelled, ticker, counters, ctrs,
                         interval, counts, cells>>]_vars

\* a resource without project id was refused by a client that an earlier
\* option had configured, and that configuration is still in place
C28_Witness ==
    /\ lastOption.called
    /\ Flattens(lastOption.resource)
    /\ ~HasProjectId(lastOption.resource)
    /\ lastOption.resource.fields # <<>>
    /\ resourceName = "generic_node"
    /\ "node_id" \in DOMAIN resourceLabels.map


\* the goroutine New() started is in the loop of runTicker or in its stop()
FirstLoopActive == rpc \in {"select", "stopLock", "sendStopped", "stopUnlock"}

\* C29: the two calls of run() never both have a loop running; and a call
\* of run() that finds q.running true returns, and that step changes
\* neither running, the stop channel, the ticker nor any other state.
C29_OneRunLoop ==
    /\ [](~(FirstLoopActive /\ rpc2 = "loop"))
    /\ [][(rpc2 = "start" /\ rpc2' # "start" /\ running) =>
             /\ rpc2' = "returned"
             /\ UNCHANGED <<now, cvars, running, stopCh, ticker, qmu, cancelled,
                            counters, ctrs, rpc, spc, sloc, flushes, stops>>]_vars

\* the second call of run() has returned while the first loop is in its
\* select with a tick waiting for it
C29_Witness ==
    /\ rpc2 = "returned"
    /\ rpc = "select"
    /\ running
    /\ ticker = "full"


\* C31: no two windows returned by takePoints calls on the counter, in one
\* response or in two, have the same start.
C31_WindowReturnedOnce ==
    \A i, j \in TakeIds :
        \A x \in 1..Len(takes[i].response), y \in 1..Len(takes[j].response) :
            (i # j \/ x # y) => takes[i].response[x].start # takes[j].response[y].start


\* thread t is between c.mu.Lock() and c.mu.Unlock() of takePoints
InDrain(t) == pc[t] \in {"getKey", "range", "delete"}

\* the windows starting at k in the responses of all takePoints calls
ReturnsOf(k) ==
    {ix \in TakeIds \X (1..MaxCalls) :
        /\ ix[2] <= Len(takes[ix[1]].response)
        /\ takes[ix[1]].response[ix[2]].start = TimeUnix(k, 0)}

\* two takePoints calls have returned, every Count() call had returned
\* before either of them read the clock, and no call is in progress
TwoDrainsAfterCounts ==
    /\ Len(takes) = 2
    /\ \A t \in AllDrainThreads : pc[t] = "idle"
    /\ \A i \in TakeIds : takes[i].ncalls = Len(log)

\* C32: at most one thread is between Lock and Unlock of takePoints, and
\* it is the holder of c.mu; and of two takePoints calls made after the
\* Count() calls, no bucket is returned by both or twice, and a bucket
\* that one of the calls had to take (its window had elapsed, or the call
\* asked for the current window) is returned once with the number of
\* Count() calls made in its window.
C32_DrainsExclusive ==
    /\ Cardinality({t \in AllDrainThreads : InDrain(t)}) <= 1
    /\ \A t \in AllDrainThreads : InDrain(t) => mu = t
    /\ TwoDrainsAfterCounts =>
          \A k \in {log[x].key : x \in 1..Len(log)} :
              /\ Cardinality(ReturnsOf(k)) <= 1
              /\ (\E i \in TakeIds : takes[i].current \/ Elapsed(k, takes[i].at)) =>
                    \E ix \in ReturnsOf(k) :
                        takes[ix[1]].response[ix[2]] =
                            Window(k, BucketCalls(k, Len(log)), interval)

\* a bucket of two Count() calls; the second call came to Lock while the
\* first held the mutex, and the bucket is in the response of one of them
C32_Witness ==
    /\ TwoDrainsAfterCounts
    /\ takes[2].waited
    /\ takes[1].by # takes[2].by
    /\ Len(log) = 2
    /\ \E i \in TakeIds : takes[i].response = <<Window(log[1].key, 2, interval)>>


\* C33: a Count() call is at one of its three steps, and the step it is at
\* can be taken in every state, whoever holds c.mu.
C33_CountNotBlocked ==
    \A t \in CountThreads :
        /\ pc[t] \in {"idle", "loadOrStore", "add"}
        /\ pc[t] = "idle" => ENABLED CountGetKey(t)
        /\ pc[t] = "loadOrStore" => ENABLED CountLoadOrStore(t)
        /\ pc[t] = "add" => ENABLED CountAdd(t)

\* a Count() call has returned after the takePoints call in progress read
\* the clock, and another is at its LoadOrStore, while c.mu is held
C33_Witness ==
    /\ mu = "d1"
    /\ pc["d1"] = "range"
    /\ Len(log) > loc["d1"].ncalls
    /\ \E t \in CountThreads : pc[t] = "loadOrStore"


\* C34: of two readings of a clock that does not go back, the second key
\* is not smaller than the first; every reading lies in the window of
\* interval seconds that starts at its key, all keys lie on one grid of
\* step interval, and so the two keys are equal exactly when the second
\* reading lies in the window of the first.
C34_KeyMonotonic ==
    \A x, y \in 1..Len(log) :
        x < y =>
            /\ ~Before(log[y].at, log[x].at)
            /\ log[x].key <= log[y].key
            /\ InBucket(log[x].at, log[x].key)
            /\ InBucket(log[y].at, log[y].key)
            /\ (log[y].key - log[x].key) % interval = 0
            /\ log[x].key = log[y].key <=> InBucket(log[y].at, log[x].key)

\* two readings a millisecond apart with different keys, for an interval
\* that does not divide the seconds from the zero time to the epoch
C34_Witness ==
    /\ Len(log) = 2
    /\ ZeroOffsetMod(interval) # 0
    /\ log[2].at = AddMs(log[1].at, 1)
    /\ log[1].key < log[2].key


\* takePoints() call i found two completed buckets and the bucket of the
\* current interval in the map
TwoCompletedOneCurrent(i) ==
    /\ Cardinality(DOMAIN takes[i].before) = 3
    /\ FrameOf(i) \in DOMAIN takes[i].before
    /\ \A k \in DOMAIN takes[i].before : k <= FrameOf(i)

\* C35: a takePoints() call that finds two completed buckets and the
\* current one returns the two completed windows with their totals and no
\* other, and a call made next, with no Count() and no clock change in
\* between, returns nothing.
C35_BothCompleted ==
    \A i \in TakeIds :
        TwoCompletedOneCurrent(i) =>
            /\ Len(takes[i].response) = 2
            /\ \A k \in (DOMAIN takes[i].before) \ {FrameOf(i)} :
                  \E x \in 1..Len(takes[i].response) :
                      takes[i].response[x] =
                          Window(k, BucketCalls(k, takes[i].ncalls), interval)
            /\ (/\ i + 1 \in TakeIds
                /\ takes[i + 1].at = takes[i].at
                /\ takes[i + 1].ncalls = takes[i].ncalls) =>
                  takes[i + 1].response = <<>>


\* the label keys of the last CreateCounter call that are not valid
BadKeys == {key \in DOMAIN lastCreate.labels : ~isMetricLabelKeyValid(key)}

\* C36: a CreateCounter call with an invalid name returns the invalid-name
\* error, and one with a valid name and an invalid label key returns the
\* error of one of its invalid keys, whatever the interval is; in both
\* cases newCounter has not been called.
C36_ValidationOrder ==
    lastCreate.called =>
        IF ~isMetricTypeValid(lastCreate.name)
        THEN lastCreate.err = ErrName /\ ~lastCreate.made
        ELSE BadKeys # {} =>
                /\ \E key \in BadKeys : lastCreate.err = ErrLabelKey(key)
                /\ ~lastCreate.made

\* a call with a valid name, an invalid label key and an interval that
\* newCounter refuses has returned the label key's error
C36_Witness ==
    /\ lastCreate.called
    /\ isMetricTypeValid(lastCreate.name)
    /\ BadKeys # {}
    /\ lastCreate.interval <= 0
    /\ \E key \in BadKeys : lastCreate.err = ErrLabelKey(key)


\* C38: a report() in which no counter yields a window calls
\* CreateTimeSeries zero times and never calls the error handler.
C38_NothingDrainedNothingSent ==
    \A j \in 1..Len(flushes) :
        flushes[j].series = <<>> =>
            flushes[j].sent = <<>> /\ flushes[j].handled = <<>>

\* a report() over a registered counter that has counted in its current
\* window only has drained nothing, after one that ran with no counter
C38_Witness ==
    /\ Len(flushes) >= 2
    /\ counters # <<>>
    /\ \E p \in 1..Len(ctrs) : ctrs[p].counts # EmptyMap
    /\ flushes[Len(flushes)].series = <<>>
    /\ ~flushes[Len(flushes)].current


\* the windows report(current) drains from binding i in the present state
DrainedOf(i, current) ==
    takePoints(ctrs[counters[i].counter], now, current,
               CHOOSE pick \in Perms(AllKeys) : TRUE,
               CHOOSE pick \in Perms(AllKeys) : TRUE).response

\* the bindings, in the order of q.counters, that yield more than b - 1
\* windows
YieldingAtLeast(b, current) ==
    SelectSeq([i \in 1..Len(counters) |-> i],
              LAMBDA i : Len(DrainedOf(i, current)) >= b)

\* the window of binding i that has exactly b - 1 drained windows of the
\* binding before it
NthOldest(i, b, current) ==
    LET d == DrainedOf(i, current)
    IN  d[CHOOSE x \in 1..Len(d) :
            Cardinality({y \in 1..Len(d) :
                Before(d[y].start, d[x].start)}) = b - 1]

\* C37: in one report(), the number of batches is the largest number of
\* windows drained from a binding, and batch b holds one time series for
\* every binding that yielded at least b windows, made of the binding's
\* metric and its b-th oldest window; so every drained window is in
\* exactly one batch.
C37_BatchPerWindowRank ==
    [][Len(flushes') > Len(flushes) =>
        LET f == flushes'[Len(flushes')]
            most == IF counters = <<>> THEN 0
                    ELSE CHOOSE n \in 0..Cardinality(AllKeys) :
                           /\ \A i \in 1..Len(counters) :
                                 Len(DrainedOf(i, f.current)) <= n
                           /\ \E i \in 1..Len(counters) :
                                 Len(DrainedOf(i, f.current)) = n
        IN  /\ Len(f.series) = most
            /\ \A b \in 1..Len(f.series) :
                  LET from == YieldingAtLeast(b, f.current)
                  IN  f.series[b] =
                        [x \in 1..Len(from) |->
                           createTimeSeriesProto(counters[from[x]].metric,
                              countToMetricPointProto(
                                 NthOldest(from[x], b, f.current)))]
    ]_vars

\* a report that drained two windows from one binding and one from
\* another has made a batch of two time series and a batch of one
C37_Witness ==
    /\ flushes # <<>>
    /\ Len(flushes[Len(flushes)].series) = 2
    /\ Len(flushes[Len(flushes)].series[1]) = 2
    /\ Len(flushes[Len(flushes)].series[2]) = 1


\* C39: every counter CreateCounter has returned to a thread is bound in
\* q.counters, also when two threads register at the same time.
C39_ReturnedIsRegistered ==
    \A t \in RegThreads :
        \A x \in 1..Len(reg[t].returned) :
            \E i \in 1..Len(counters) : counters[i].counter = reg[t].returned[x]

====
